---------------------------- MODULE Spec2Model ----------------------------
(***************************************************************************)
(* A model of the OpSy kernel (Otatiaro/OpSy): the scheduler, its three    *)
(* exception handlers (service call, system tick, pending switch), the     *)
(* priority mutex and the condition variable, on one Cortex-M core.        *)
(*                                                                         *)
(* The intrusive lists are modelled at the level of their pointers         *)
(* (m_first, m_size, and each node's m_previous / m_next), because the     *)
(* ready queue and every condition variable's waiting list share one node  *)
(* of the task (TaskLists::Waiting) and EmbeddedList::erase trusts the     *)
(* caller about the list the node is on.                                   *)
(*                                                                         *)
(* The build modelled is the debug build: an assert that fails stops the   *)
(* system.  The variable halted names the assert; the other variables keep *)
(* the values they had when the handler that failed was entered.           *)
(***************************************************************************)
EXTENDS Integers, Sequences, FiniteSets, TLC

(***************************************************************************)
(* Bounds of the model.                                                    *)
(***************************************************************************)
NumTasks == 3
MaxTicks == 3
MaxTimeout == 2
NumCV == 1
NumMutex == 2

Tasks == 1 .. NumTasks
\* The condition variables; the mutex of condition variable c is mutex c,
\* and the other mutexes are the application's.
CVs == 1 .. NumCV
UserMutexes == (NumCV + 1) .. (NumCV + NumMutex)
Mutexes == CVs \cup UserMutexes
\* The task priorities used: Priority::Low and Priority::Normal.
Prios == {64, 128}

\* The null pointer, std::nullopt, and "no assert failed".
Null == 0
None == -1
NoErr == "none"

(***************************************************************************)
(* Program constants.                                                      *)
(***************************************************************************)
\* Scheduler::kServiceCallPriority = FromPreemptSub<2>(1, 0)
kServiceCallPriority == 64
\* Scheduler::kSystickPriority = FromPreemptSub<2>(1, minSub())
kSystickPriority == 127
\* Scheduler::kPendSvPriority = FromPreemptSub<2>(minPreempt(), minSub())
kPendSvPriority == 255
\* std::cv_status
no_timeout == 0
timeout == 1
\* duration = std::chrono::duration<int32_t, std::milli>: the largest count
MaxDuration == 2147483647

\* IsrPriority::maskedValue<kPreemptionBits>(): the two preemption bits.
maskedValue(v) == v - (v % 64)

(***************************************************************************)
(* EmbeddedList<Item, Interface>.  A list is [m_first, m_size]; nd maps a  *)
(* task to its node [m_previous, m_next] of the list's interface.  Every   *)
(* operation returns the list, the nodes and the assert that failed.       *)
(* m_size (uint32_t) cannot wrap: it is decremented only where empty() has *)
(* asserted that it is not 0.                                              *)
(***************************************************************************)
EmptyList == [m_first |-> Null, m_size |-> 0]
FreeNode == [m_previous |-> Null, m_next |-> Null]
LR(l, nd, err) == [l |-> l, nd |-> nd, err |-> err]

\* EmbeddedIterator::is_free
is_free(nd, x) == nd[x].m_previous = Null /\ nd[x].m_next = Null

\* The assert of EmbeddedList::empty: (m_first == nullptr) ^ (m_size != 0).
emptyAssert(l) == (l.m_first = Null) # (l.m_size # 0)
empty(l) == l.m_first = Null

push_front(l, nd, x) ==
    IF ~is_free(nd, x) THEN LR(l, nd, "push_front: is_free")
    ELSE IF ~emptyAssert(l) THEN LR(l, nd, "empty: m_first/m_size")
    ELSE LET nd1 == [nd EXCEPT ![x].m_next = l.m_first]
             nd2 == IF ~empty(l)
                    THEN [nd1 EXCEPT ![l.m_first].m_previous = x]
                    ELSE nd1
         IN  LR([m_first |-> x, m_size |-> l.m_size + 1], nd2, NoErr)

pop_front(l, nd) ==
    IF ~emptyAssert(l) THEN LR(l, nd, "empty: m_first/m_size")
    ELSE IF empty(l) THEN LR(l, nd, "pop_front: !empty")
    ELSE IF nd[l.m_first].m_previous # Null THEN LR(l, nd, "pop_front: previous == nullptr")
    ELSE LET i   == l.m_first
             l1  == [m_first |-> nd[i].m_next,
                     m_size  |-> l.m_size - 1]
             nd1 == [nd EXCEPT ![i] = FreeNode]
         IN  IF ~emptyAssert(l1) THEN LR(l, nd, "empty: m_first/m_size")
             ELSE IF ~empty(l1)
                  THEN LR(l1, [nd1 EXCEPT ![l1.m_first].m_previous = Null], NoErr)
                  ELSE LR(l1, nd1, NoErr)

erase(l, nd, x) ==
    IF ~emptyAssert(l) THEN LR(l, nd, "empty: m_first/m_size")
    ELSE IF empty(l) THEN LR(l, nd, NoErr)
    ELSE IF nd[x].m_previous = Null
    THEN IF nd[x].m_next = Null
         THEN \* only element, or not in the list
              IF l.m_first = x
              THEN LR([m_first |-> Null, m_size |-> l.m_size - 1], nd, NoErr)
              ELSE LR(l, nd, NoErr)
         ELSE \* taken to be the first element of this list
              LET f   == nd[x].m_next
                  nd1 == [nd EXCEPT ![x].m_next = Null]
                  nd2 == [nd1 EXCEPT ![f].m_previous = Null]
              IN  LR([m_first |-> f, m_size |-> l.m_size - 1], nd2, NoErr)
    ELSE \* taken to be somewhere in this list, not in front
         LET p   == nd[x].m_previous
             n   == nd[x].m_next
             nd1 == [nd EXCEPT ![p].m_next = n]
             nd2 == IF n # Null THEN [nd1 EXCEPT ![n].m_previous = nd1[x].m_previous] ELSE nd1
             nd3 == [nd2 EXCEPT ![x] = FreeNode]
         IN  LR([l EXCEPT !.m_size = l.m_size - 1], nd3, NoErr)

\* EmbeddedList::insert, as insertWhen calls it: previous is an element.
insert(l, nd, previous, x) ==
    IF ~is_free(nd, x) THEN LR(l, nd, "insert: is_free")
    ELSE LET l1 == [l EXCEPT !.m_size = l.m_size + 1]
         IN  IF ~emptyAssert(l1) THEN LR(l, nd, "empty: m_first/m_size")
             ELSE IF empty(l1) \/ previous = Null
                  THEN push_front(l1, nd, x)
                  ELSE LET n   == nd[previous].m_next
                           nd1 == [nd EXCEPT ![x] = [m_previous |-> previous, m_next |-> n]]
                           nd2 == [nd1 EXCEPT ![previous].m_next = x]
                           nd3 == IF n # Null THEN [nd2 EXCEPT ![n].m_previous = x] ELSE nd2
                       IN  LR(l1, nd3, NoErr)

\* The loop of insertWhen: the last element before which x does not go.
\* before[a] is predicate(x, a); bad is the set of elements on which the
\* predicate's own assert fails.  fuel bounds the walk of a list that has
\* become circular (the loop would not end).
RECURSIVE insertScan(_, _, _, _, _, _)
insertScan(nd, before, bad, previous, current, fuel) ==
    IF current = Null THEN [previous |-> previous, err |-> NoErr]
    ELSE IF current \in bad THEN [previous |-> previous, err |-> "predicate: assert"]
    ELSE IF before[current] THEN [previous |-> previous, err |-> NoErr]
    ELSE IF fuel = 0 THEN [previous |-> previous, err |-> "insertWhen: endless loop"]
    ELSE insertScan(nd, before, bad, current, nd[current].m_next, fuel - 1)

insertWhen(l, nd, x, before, bad) ==
    IF ~emptyAssert(l) THEN LR(l, nd, "empty: m_first/m_size")
    ELSE IF empty(l) THEN push_front(l, nd, x)
    ELSE IF l.m_first \in bad THEN LR(l, nd, "predicate: assert")
    ELSE IF before[l.m_first] THEN push_front(l, nd, x)
    ELSE LET s == insertScan(nd, before, bad, l.m_first, nd[l.m_first].m_next, NumTasks + 1)
         IN  IF s.err # NoErr THEN LR(l, nd, s.err)
             ELSE insert(l, nd, s.previous, x)

\* The elements of a list in order, by following m_next from m_first (at
\* most NumTasks + 1 of them, should the list be circular).
RECURSIVE Walk(_, _, _)
Walk(nd, x, fuel) ==
    IF x = Null \/ fuel = 0 THEN <<>> ELSE <<x>> \o Walk(nd, nd[x].m_next, fuel - 1)
Elems(l, nd) == Walk(nd, l.m_first, NumTasks + 1)
Range(s) == {s[i] : i \in 1 .. Len(s)}


(***************************************************************************)
(* The state.  The names are those of the source.                          *)
(***************************************************************************)
VARIABLES
    \* Scheduler (static members)
    s_isStarted, s_ticks, s_allTasks, s_timeouts, s_ready, s_idling,
    s_mayNeedSwitch, s_previousTask, s_currentTask, s_nextTask,
    s_criticalSection,
    \* TaskControlBlock: the fields, and the three nodes of each task
    tcb, waitingNode, timeoutNode, handleNode,
    \* ConditionVariable::m_waitingList of each condition variable, and every
    \* PriorityMutex (a condition variable's m_mutex has its number)
    m_waitingList, mutex,
    \* the core: BASEPRI, PRIMASK, the PendSV pending bit, the r0 word of
    \* each task's stacked exception frame, the context PSP belongs to
    basepri, primask, pendSv, frame_r0, running,
    \* the interrupt service routine that notifies, each task's place in the
    \* library call it is in, and the mutexes it has locked (innermost last)
    isr, pc, call, held,
    \* what woke each task last (history, read by the properties only)
    wokenBy,
    \* the assert that stopped the system
    halted,
    \* an IsrPriority the application builds with FromPreemptSub and reads:
    \* the template argument and the arguments, m_value, and what value(),
    \* preempt() and sub() returned
    isrPriority

vars == <<s_isStarted, s_ticks, s_allTasks, s_timeouts, s_ready, s_idling,
          s_mayNeedSwitch, s_previousTask, s_currentTask, s_nextTask,
          s_criticalSection, tcb, waitingNode, timeoutNode, handleNode,
          m_waitingList, mutex, basepri, primask, pendSv, frame_r0, running,
          isr, pc, call, held, wokenBy, halted, isrPriority>>

\* The context that runs in thread mode: a task, the idle task, or the
\* code that called Scheduler::start.
Idle == NumTasks + 1
Boot == NumTasks + 2

\* What a stacked r0 holds when no status was written to it: the service
\* call's own first argument (a pointer to the condition variable).
ArgWord == 2

\* The kernel's state as one record, for the handlers, which are functions
\* from state to state: ret is the value the function returns, err the
\* assert that failed in it.
K == [s_isStarted |-> s_isStarted, s_ticks |-> s_ticks, s_allTasks |-> s_allTasks,
      s_timeouts |-> s_timeouts, s_ready |-> s_ready, s_idling |-> s_idling,
      s_mayNeedSwitch |-> s_mayNeedSwitch, s_previousTask |-> s_previousTask,
      s_currentTask |-> s_currentTask, s_nextTask |-> s_nextTask,
      s_criticalSection |-> s_criticalSection, tcb |-> tcb,
      waitingNode |-> waitingNode, timeoutNode |-> timeoutNode,
      handleNode |-> handleNode, m_waitingList |-> m_waitingList,
      mutex |-> mutex, basepri |-> basepri, primask |-> primask,
      pendSv |-> pendSv, frame_r0 |-> frame_r0, running |-> running,
      wokenBy |-> wokenBy, ret |-> FALSE, err |-> NoErr]

Fail(k, msg) == IF k.err # NoErr THEN k ELSE [k EXCEPT !.err = msg]

\* The state a handler leaves: k, or the system stopped on k.err.  No
\* handler of the kernel holds an IsrPriority built by FromPreemptSub.
Commit(k) ==
    IF k.err # NoErr
    THEN /\ halted' = k.err
         /\ isrPriority' = isrPriority
         /\ UNCHANGED <<s_isStarted, s_ticks, s_allTasks, s_timeouts, s_ready,
                        s_idling, s_mayNeedSwitch, s_previousTask, s_currentTask,
                        s_nextTask, s_criticalSection, tcb, waitingNode,
                        timeoutNode, handleNode, m_waitingList, mutex, basepri,
                        primask, pendSv, frame_r0, running, wokenBy>>
    ELSE /\ halted' = halted
         /\ isrPriority' = isrPriority
         /\ s_isStarted' = k.s_isStarted
         /\ s_ticks' = k.s_ticks
         /\ s_allTasks' = k.s_allTasks
         /\ s_timeouts' = k.s_timeouts
         /\ s_ready' = k.s_ready
         /\ s_idling' = k.s_idling
         /\ s_mayNeedSwitch' = k.s_mayNeedSwitch
         /\ s_previousTask' = k.s_previousTask
         /\ s_currentTask' = k.s_currentTask
         /\ s_nextTask' = k.s_nextTask
         /\ s_criticalSection' = k.s_criticalSection
         /\ tcb' = k.tcb
         /\ waitingNode' = k.waitingNode
         /\ timeoutNode' = k.timeoutNode
         /\ handleNode' = k.handleNode
         /\ m_waitingList' = k.m_waitingList
         /\ mutex' = k.mutex
         /\ basepri' = k.basepri
         /\ primask' = k.primask
         /\ pendSv' = k.pendSv
         /\ frame_r0' = k.frame_r0
         /\ running' = k.running
         /\ wokenBy' = k.wokenBy

(***************************************************************************)
(* TaskControlBlock                                                        *)
(***************************************************************************)
\* A priorityIsLower for which, of two tasks of one priority started at the
\* same tick, the one inserted last comes first.
priorityIsLower_TiesFirst(t, left, right) ==
    IF t[left].m_priority > t[right].m_priority THEN FALSE
    ELSE IF t[left].m_priority < t[right].m_priority THEN TRUE
    ELSE t[left].m_lastStarted <= t[right].m_lastStarted

\* TaskControlBlock::priorityIsLower(left, right)
priorityIsLower(t, left, right) ==
    IF t[left].m_priority > t[right].m_priority THEN FALSE
    ELSE IF t[left].m_priority < t[right].m_priority THEN TRUE
    ELSE t[left].m_lastStarted < t[right].m_lastStarted
\* A wakeupAfter that puts the later deadline first.
wakeupAfter_Reversed(t, left, right) == t[left].m_waitUntil > t[right].m_waitUntil
\* Scheduler::wakeupAfter(left, right), and the tasks on which its assert
\* (both have a deadline) fails.
wakeupAfter(t, left, right) == t[left].m_waitUntil < t[right].m_waitUntil
wakeupAfterBad(t, left) ==
    IF t[left].m_waitUntil = None THEN Tasks ELSE {a \in Tasks : t[a].m_waitUntil = None}

\* TaskControlBlock::setReturnValue.  m_stackPointer is "ctx" when it is the
\* address of the context the task is suspended on; otherwise it is the
\* address of an earlier context of the task, and the word written is the
\* stacked r0 only if the two addresses happen to be the same (lands).
setReturnValue(k, task, value, lands) ==
    IF k.tcb[task].m_stackPointer = "ctx" \/ task \in lands
    THEN [k EXCEPT !.frame_r0[task] = value]
    ELSE k

(***************************************************************************)
(* The lists of the scheduler and of the condition variables.              *)
(***************************************************************************)
SetReady(k, r) ==
    IF k.err # NoErr THEN k
    ELSE IF r.err # NoErr THEN Fail(k, r.err)
    ELSE [k EXCEPT !.s_ready = r.l, !.waitingNode = r.nd]
SetTimeouts(k, r) ==
    IF k.err # NoErr THEN k
    ELSE IF r.err # NoErr THEN Fail(k, r.err)
    ELSE [k EXCEPT !.s_timeouts = r.l, !.timeoutNode = r.nd]
SetWaiting(k, c, r) ==
    IF k.err # NoErr THEN k
    ELSE IF r.err # NoErr THEN Fail(k, r.err)
    ELSE [k EXCEPT !.m_waitingList[c] = r.l, !.waitingNode = r.nd]
SetAllTasks(k, r) ==
    IF k.err # NoErr THEN k
    ELSE IF r.err # NoErr THEN Fail(k, r.err)
    ELSE [k EXCEPT !.s_allTasks = r.l, !.handleNode = r.nd]

\* s_ready.insertWhen(TaskControlBlock::priorityIsLower, task)
readyInsert(k, task) ==
    SetReady(k, insertWhen(k.s_ready, k.waitingNode, task,
                           [a \in Tasks |-> priorityIsLower(k.tcb, task, a)], {}))
\* s_timeouts.insertWhen(wakeupAfter, task)
timeoutsInsert(k, task) ==
    SetTimeouts(k, insertWhen(k.s_timeouts, k.timeoutNode, task,
                              [a \in Tasks |-> wakeupAfter(k.tcb, task, a)],
                              wakeupAfterBad(k.tcb, task)))
\* ConditionVariable::addWaiting, ConditionVariable::removeWaiting
addWaiting(k, c, task) ==
    SetWaiting(k, c, insertWhen(k.m_waitingList[c], k.waitingNode, task,
                                [a \in Tasks |-> priorityIsLower(k.tcb, task, a)], {}))
removeWaiting(k, c, task) ==
    SetWaiting(k, c, erase(k.m_waitingList[c], k.waitingNode, task))

(***************************************************************************)
(* Scheduler                                                               *)
(***************************************************************************)
\* Scheduler::doSwitch; k.ret is its return value.  The steps of a handler
\* are operators applied one to the result of the other; each returns the
\* state unchanged once an assert has failed.
\* if (s_nextTask != nullptr) { ... }
requeueNext(k) ==
    IF k.err # NoErr \/ k.s_nextTask = Null THEN k
    ELSE IF k.s_currentTask = k.s_nextTask THEN Fail(k, "doSwitch: current != next")
    ELSE [readyInsert(k, k.s_nextTask) EXCEPT !.s_nextTask = Null]
\* if (s_currentTask != nullptr) { ... }
requeueCurrent(k) ==
    IF k.err # NoErr \/ k.s_currentTask = Null THEN k
    ELSE [readyInsert(k, k.s_currentTask) EXCEPT !.s_currentTask = Null]

\* A takeFront that asks for the switch also when the front is the task
\* that was executing.
takeFront_AlwaysSwitch(k, front, current) ==
    IF k.err # NoErr THEN k
    ELSE [k EXCEPT !.s_nextTask = front, !.pendSv = TRUE, !.ret = TRUE]

\* s_nextTask = &s_ready.front(), popped, compared with current
takeFront(k, front, current) ==
    IF k.err # NoErr THEN k
    ELSE IF front = current
         THEN [k EXCEPT !.s_currentTask = front, !.s_nextTask = Null, !.ret = FALSE]
         ELSE [k EXCEPT !.s_nextTask = front, !.pendSv = TRUE, !.ret = TRUE]
\* if (s_ready.empty()) ... else ...
pickNext(k, current) ==
    IF k.err # NoErr THEN k
    ELSE IF ~emptyAssert(k.s_ready) THEN Fail(k, "empty: m_first/m_size")
    ELSE IF empty(k.s_ready) THEN [k EXCEPT !.pendSv = TRUE, !.ret = TRUE]
    ELSE takeFront(SetReady(k, pop_front(k.s_ready, k.waitingNode)),
                   k.s_ready.m_first, current)

\* A doSwitch that does not look at s_criticalSection.
doSwitch_NoDefer(k) ==
    IF k.err # NoErr THEN k
    ELSE IF ~k.s_isStarted THEN Fail(k, "doSwitch: s_isStarted")
    ELSE pickNext(requeueCurrent(requeueNext(k)), k.s_currentTask)
\* Scheduler::doSwitch
doSwitch(k) ==
    IF k.err # NoErr THEN k
    ELSE IF ~k.s_isStarted THEN Fail(k, "doSwitch: s_isStarted")
    ELSE IF ~(k.s_currentTask # Null \/ ~k.s_criticalSection)
         THEN Fail(k, "doSwitch: current task or no critical section")
    ELSE IF k.s_criticalSection
         THEN [k EXCEPT !.s_mayNeedSwitch = TRUE, !.ret = FALSE]
    ELSE pickNext(requeueCurrent(requeueNext(k)), k.s_currentTask)

\* Scheduler::triggerSoftSwitch
triggerSoftSwitch(k) ==
    IF k.err # NoErr THEN k
    ELSE IF k.basepri # 0 THEN Fail(k, "triggerSoftSwitch: previous == 0")
    ELSE [doSwitch([k EXCEPT !.basepri = kServiceCallPriority, !.s_mayNeedSwitch = FALSE])
          EXCEPT !.basepri = k.basepri]

\* A criticalSectionEnd that leaves the deferred switch undone.
criticalSectionEnd_NoSwitch(k) ==
    IF k.err # NoErr THEN k
    ELSE [k EXCEPT !.s_criticalSection = FALSE]
\* Scheduler::criticalSectionEnd
criticalSectionEnd(k) ==
    IF k.err # NoErr THEN k
    ELSE IF ~k.s_criticalSection THEN Fail(k, "criticalSectionEnd: s_criticalSection")
    ELSE IF k.s_mayNeedSwitch
         THEN triggerSoftSwitch([k EXCEPT !.s_criticalSection = FALSE])
         ELSE [k EXCEPT !.s_criticalSection = FALSE]
\* An addTask that asks for a switch whether or not the scheduler is started.
addTaskSwitch_Always(k) ==
    IF k.err = NoErr THEN triggerSoftSwitch(k) ELSE k
\* Scheduler::addTask
addTaskSwitch(k) ==
    IF k.err = NoErr /\ k.s_isStarted THEN triggerSoftSwitch(k) ELSE k
addTask(k, task) ==
    addTaskSwitch(readyInsert(SetAllTasks(k, push_front(k.s_allTasks, k.handleNode, task)),
                              task))

\* TaskControlBlock::start; k.ret is its return value.
taskStart(k, task) ==
    IF k.tcb[task].m_active THEN [k EXCEPT !.ret = FALSE]
    ELSE [addTask([k EXCEPT !.tcb[task].m_active = TRUE,
                            !.tcb[task].m_stackPointer = "ctx"], task)
          EXCEPT !.ret = TRUE]

\* Scheduler::start
schedulerStart(k) ==
    IF k.s_isStarted THEN Fail(k, "start: !s_isStarted")
    ELSE doSwitch([k EXCEPT !.s_isStarted = TRUE])

(***************************************************************************)
(* PriorityMutex.  thread: the caller is a task (IPSR is 0); current is    *)
(* the caller's interrupt priority otherwise.                              *)
(***************************************************************************)
\* A takeCriticalSection whose handle is valid also when a critical section
\* was active.
takeCriticalSection_Valid(k, m) ==
    IF k.err # NoErr THEN k
    ELSE IF k.mutex[m].m_criticalSection THEN Fail(k, "CriticalSection::operator=: !m_valid")
    ELSE [k EXCEPT !.mutex[m].m_criticalSection = TRUE,
                   !.s_criticalSection = TRUE]

\* m_criticalSection = Scheduler::criticalSection(): the handle returned is
\* valid if no critical section was active, and is moved into the mutex.
takeCriticalSection(k, m) ==
    IF k.err # NoErr THEN k
    ELSE IF k.mutex[m].m_criticalSection THEN Fail(k, "CriticalSection::operator=: !m_valid")
    ELSE [k EXCEPT !.mutex[m].m_criticalSection = ~k.s_criticalSection,
                   !.s_criticalSection = TRUE]

\* auto tmp = std::move(m_criticalSection), and tmp's destructor.
dropCriticalSection(k, m) ==
    IF k.err # NoErr THEN k
    ELSE IF k.mutex[m].m_criticalSection
         THEN criticalSectionEnd([k EXCEPT !.mutex[m].m_criticalSection = FALSE])
         ELSE k

\* PriorityMutex::lock
\* m_previousLock = setBasepri(m_priority masked), and the assert on it
lockBasepri(k, m) ==
    IF k.err # NoErr THEN k
    ELSE IF maskedValue(k.basepri) <= maskedValue(k.mutex[m].m_priority)
         THEN [k EXCEPT !.basepri = maskedValue(k.mutex[m].m_priority),
                        !.mutex[m].m_previousLock = k.basepri]
         ELSE Fail(k, "lock: cannot lower basepri")
lockEnter(k, m, thread, current) ==
    IF k.mutex[m].m_priority = None
    THEN IF thread THEN takeCriticalSection(k, m) ELSE Fail(k, "lock: ipsr == 0")
    ELSE IF k.mutex[m].m_priority = 0
    THEN IF k.primask THEN Fail(k, "lock: !isPrimask") ELSE [k EXCEPT !.primask = TRUE]
    ELSE lockBasepri(IF thread THEN takeCriticalSection(k, m)
                     ELSE IF maskedValue(current) >= maskedValue(k.mutex[m].m_priority)
                          THEN k
                          ELSE Fail(k, "lock: interrupt priority above the mutex"),
                     m)
setLocked(k, m) ==
    IF k.err # NoErr THEN k ELSE [k EXCEPT !.mutex[m].m_locked = TRUE]
lock(k, m, thread, current) == setLocked(lockEnter(k, m, thread, current), m)

\* PriorityMutex::unlock
unlock(k, m, thread) ==
    LET P == k.mutex[m].m_priority
    IN  IF k.err # NoErr \/ ~k.mutex[m].m_locked THEN k
        ELSE IF P # None
        THEN IF P = 0
             THEN IF ~k.primask THEN Fail(k, "unlock: isPrimask")
                  ELSE [k EXCEPT !.primask = FALSE]
             ELSE IF maskedValue(k.basepri) # maskedValue(P)
                  THEN Fail(k, "unlock: basepri was the mutex's")
                  ELSE dropCriticalSection(
                           [k EXCEPT !.basepri = k.mutex[m].m_previousLock], m)
        ELSE IF thread THEN dropCriticalSection(k, m)
             ELSE Fail(k, "unlock: ipsr == 0")

\* PriorityMutex::reLockFromPendSv(CriticalSection(true)); k.ret is not
\* used: the value returned is ReLockResult.
ReLockResult(k, m) ==
    IF k.mutex[m].m_priority = None THEN 0 ELSE maskedValue(k.mutex[m].m_priority)
reLockFromPendSv(k, m) ==
    IF k.err # NoErr THEN k
    ELSE IF k.mutex[m].m_criticalSection THEN Fail(k, "CriticalSection::operator=: !m_valid")
    ELSE IF k.mutex[m].m_priority = 0 THEN Fail(k, "reLockFromPendSv: priority != 0")
    ELSE [k EXCEPT !.mutex[m].m_criticalSection = TRUE,
                   !.mutex[m].m_previousLock =
                        IF k.mutex[m].m_priority # None THEN 0 ELSE @,
                   !.mutex[m].m_locked = TRUE]

\* A releaseFromServiceCall that leaves BASEPRI as the mutex set it.
releaseFromServiceCall_KeepMask(k, m) ==
    IF k.err # NoErr THEN k
    ELSE IF ~k.mutex[m].m_locked THEN Fail(k, "releaseFromServiceCall: m_locked")
    ELSE k

\* PriorityMutex::releaseFromServiceCall
releaseFromServiceCall(k, m) ==
    LET P == k.mutex[m].m_priority
    IN  IF k.err # NoErr THEN k
        ELSE IF ~k.mutex[m].m_locked THEN Fail(k, "releaseFromServiceCall: m_locked")
        ELSE IF P = None THEN k
        ELSE IF P = 0
             THEN IF ~k.primask THEN Fail(k, "releaseFromServiceCall: isPrimask")
                  ELSE [k EXCEPT !.primask = FALSE]
        ELSE IF maskedValue(k.basepri) # maskedValue(P)
             THEN Fail(k, "releaseFromServiceCall: basepri was the mutex's")
             ELSE [k EXCEPT !.basepri = k.mutex[m].m_previousLock]

(***************************************************************************)
(* Scheduler: wake-up, priority change, and the three handlers.            *)
(***************************************************************************)
\* Scheduler::wakeUp(task, condition)
\* if (task.m_waitUntil.has_value()) { ... }
wakeUpTimeout(k, task) ==
    IF k.err # NoErr \/ k.tcb[task].m_waitUntil = None THEN k
    ELSE SetTimeouts([k EXCEPT !.tcb[task].m_waitUntil = None],
                     erase(k.s_timeouts, k.timeoutNode, task))
\* condition.removeWaiting(task); task.m_waiting = nullptr; setReturnValue
wakeUpRemove(k, task, c, lands) ==
    setReturnValue([removeWaiting(k, c, task) EXCEPT !.tcb[task].m_waiting = Null],
                   task, no_timeout, lands)
wakeUp(k, task, c, lands) ==
    IF k.err # NoErr THEN k
    ELSE IF k.tcb[task].m_waiting # c THEN Fail(k, "wakeUp: task.m_waiting == &condition")
    ELSE [doSwitch(readyInsert(
              wakeUpTimeout(wakeUpRemove([k EXCEPT !.basepri = kServiceCallPriority],
                                         task, c, lands),
                            task),
              task))
          EXCEPT !.basepri = k.basepri, !.wokenBy[task] = "notify"]

\* Scheduler::updatePriority(task, newPriority)
\* if (&s_ready.front() == &task) doSwitch();
updatePriorityFront(k, task) ==
    IF k.err # NoErr THEN k
    ELSE IF ~emptyAssert(k.s_ready) \/ empty(k.s_ready) THEN Fail(k, "front: !empty")
    ELSE IF k.s_ready.m_first = task THEN doSwitch(k)
    ELSE k
\* if (task.isStarted()) { ... }
updatePriorityMove(k, task) ==
    IF ~k.tcb[task].m_active THEN k
    ELSE IF task = k.s_currentTask \/ task = k.s_nextTask THEN doSwitch(k)
    ELSE IF k.tcb[task].m_waiting # Null
         THEN addWaiting(removeWaiting(k, k.tcb[task].m_waiting, task),
                         k.tcb[task].m_waiting, task)
    ELSE IF k.tcb[task].m_waitUntil = None
         THEN updatePriorityFront(
                  readyInsert(SetReady(k, erase(k.s_ready, k.waitingNode, task)), task),
                  task)
    ELSE k
setBasepri(k, priority) ==
    IF k.err # NoErr THEN k ELSE [k EXCEPT !.basepri = priority]
updatePriority(k, task, newPriority) ==
    setBasepri(updatePriorityMove([k EXCEPT !.basepri = kServiceCallPriority,
                                            !.tcb[task].m_priority = newPriority],
                                  task),
               k.basepri)

\* Scheduler::pendSvHandler, with the trampoline PendSV_Handler around it:
\* BASEPRI is the kernel's while it runs and the high word of the result
\* when it returns; PSP is the context returned.
\* if (s_previousTask != nullptr) s_previousTask->m_stackPointer = psp;
savePrevious(k) ==
    IF k.s_previousTask = Null THEN k
    ELSE [k EXCEPT !.tcb[k.s_previousTask].m_stackPointer =
                       IF k.running = k.s_previousTask THEN "ctx" ELSE "foreign"]
\* s_idling = false; s_previousTask = s_currentTask = s_nextTask; ...
promote(k, t) ==
    [k EXCEPT !.s_idling = FALSE, !.s_previousTask = t, !.s_currentTask = t,
              !.tcb[t].m_lastStarted = k.s_ticks, !.s_nextTask = Null]
\* A switch that forgets the mutex of the task it dispatches.
reLockFor_Forget(k, t) == [k EXCEPT !.basepri = 0, !.tcb[t].m_mutex = Null]

\* if (s_currentTask->m_mutex != nullptr) { ... }, and the BASEPRI returned
reLockFor(k, t) ==
    IF k.tcb[t].m_mutex = Null THEN [k EXCEPT !.basepri = 0]
    ELSE [reLockFromPendSv(k, k.tcb[t].m_mutex)
          EXCEPT !.s_criticalSection = TRUE, !.tcb[t].m_mutex = Null,
                 !.basepri = ReLockResult(k, k.tcb[t].m_mutex)]
\* assert(s_currentTask->isStarted()), and the context restored from sp
resume(k, t, sp) ==
    IF k.err # NoErr THEN k
    ELSE IF ~k.tcb[t].m_active THEN Fail(k, "pendSvHandler: isStarted")
    ELSE IF sp # "ctx" THEN Fail(k, "PendSV_Handler: restores a context that was not saved")
    ELSE [k EXCEPT !.running = t, !.tcb[t].m_stackPointer = "old"]
pendSvSwitch(k) ==
    IF k.s_nextTask = Null
    THEN [k EXCEPT !.s_idling = TRUE, !.s_previousTask = Null,
                   !.running = Idle, !.basepri = 0]
    ELSE resume(reLockFor(promote(k, k.s_nextTask), k.s_nextTask),
                k.s_nextTask, k.tcb[k.s_nextTask].m_stackPointer)
pendSvHandler(k) == pendSvSwitch(savePrevious([k EXCEPT !.pendSv = FALSE]))

\* Scheduler::SystickHandler
\* if (task.m_waiting != nullptr) { removeWaiting; setReturnValue(timeout) }
timeOutWaiting(k, task, lands) ==
    IF k.err # NoErr \/ k.tcb[task].m_waiting = Null THEN k
    ELSE [setReturnValue(removeWaiting(k, k.tcb[task].m_waiting, task),
                         task, timeout, lands)
          EXCEPT !.wokenBy[task] = "timeout"]
\* The body of the loop, for task = s_timeouts.front()
timeOut(k, task, lands) ==
    readyInsert(timeOutWaiting([SetTimeouts(k, pop_front(k.s_timeouts, k.timeoutNode))
                                EXCEPT !.tcb[task].m_waitUntil = None],
                               task, lands),
                task)
setDirty(k) == IF k.err # NoErr THEN k ELSE [k EXCEPT !.ret = TRUE]
\* The loop; dirty is k.ret.
RECURSIVE systickDrain(_, _, _)
systickDrain(k, lands, fuel) ==
    IF k.err # NoErr THEN k
    ELSE IF ~emptyAssert(k.s_timeouts) THEN Fail(k, "empty: m_first/m_size")
    ELSE IF empty(k.s_timeouts) THEN k
    ELSE IF k.tcb[k.s_timeouts.m_first].m_waitUntil = None
         THEN Fail(k, "SystickHandler: m_waitUntil.value()")
    ELSE IF ~(k.tcb[k.s_timeouts.m_first].m_waitUntil <= k.s_ticks) THEN k
    ELSE IF fuel = 0 THEN Fail(k, "SystickHandler: endless loop")
    ELSE systickDrain(setDirty(timeOut(k, k.s_timeouts.m_first, lands)), lands, fuel - 1)
\* if (dirty) doSwitch();
exitSystick(k) == IF k.err = NoErr /\ k.ret THEN doSwitch(k) ELSE k

\* A SystickHandler that readies the tasks and asks for no switch.
SystickHandler_NoSwitch(k, lands) ==
    systickDrain([k EXCEPT !.s_ticks = k.s_ticks + 1, !.ret = FALSE], lands, NumTasks + 1)

SystickHandler(k, lands) ==
    exitSystick(systickDrain([k EXCEPT !.s_ticks = k.s_ticks + 1, !.ret = FALSE],
                             lands, NumTasks + 1))

\* Scheduler::serviceCallHandler, case Terminate
\* if (task.m_waitUntil.has_value()) { ... }
terminateTimeout(k, task) ==
    IF k.err # NoErr \/ k.tcb[task].m_waitUntil = None THEN k
    ELSE [SetTimeouts(k, erase(k.s_timeouts, k.timeoutNode, task))
          EXCEPT !.tcb[task].m_waitUntil = None]
\* if (task.m_waiting != nullptr) { ... }
terminateWaiting(k, task) ==
    IF k.err # NoErr \/ k.tcb[task].m_waiting = Null THEN k
    ELSE [removeWaiting(k, k.tcb[task].m_waiting, task)
          EXCEPT !.tcb[task].m_waiting = Null]
\* if (&task == s_currentTask) { ... }
terminateCurrent(k, task) ==
    IF k.err # NoErr \/ task # k.s_currentTask THEN k
    ELSE IF k.s_criticalSection THEN Fail(k, "Terminate: !s_criticalSection")
    ELSE doSwitch([k EXCEPT !.s_previousTask = Null, !.s_currentTask = Null])

\* A Terminate that switches also when the task was not active.
svcTerminate_Switch(k, task) ==
    IF ~k.tcb[task].m_active THEN doSwitch(k)
    ELSE terminateCurrent(
             terminateWaiting(
                 terminateTimeout(
                     SetAllTasks([k EXCEPT !.tcb[task].m_active = FALSE],
                                 erase(k.s_allTasks, k.handleNode, task)),
                     task),
                 task),
             task)
svcTerminate(k, task) ==
    IF ~k.tcb[task].m_active THEN k
    ELSE terminateCurrent(
             terminateWaiting(
                 terminateTimeout(
                     SetAllTasks([k EXCEPT !.tcb[task].m_active = FALSE],
                                 erase(k.s_allTasks, k.handleNode, task)),
                     task),
                 task),
             task)

\* Scheduler::serviceCallHandler, case Sleep; count is frame->r0
sleepSwitch(k) ==
    IF k.err # NoErr THEN k ELSE doSwitch([k EXCEPT !.s_currentTask = Null])

\* A delta without the extra tick.
sleepDelta_Exact(count) == IF count = MaxDuration THEN -MaxDuration - 1 ELSE count

\* duration{static_cast<int32_t>(frame->r0) + 1}: the sum of two 32-bit
\* integers, which wraps at the largest duration.
sleepDelta(count) == IF count = MaxDuration THEN -MaxDuration - 1 ELSE count + 1
\* A Sleep that checks the critical section after it has set the deadline and
\* put the task on the timeout queue.
svcSleep_LateAssert(k, count) ==
    IF k.s_currentTask = Null THEN Fail(k, "Sleep: s_currentTask != nullptr")
    ELSE IF sleepDelta(count) < 0 THEN Fail(k, "Sleep: delta.count() >= 0")
    ELSE IF k.s_criticalSection
         THEN Fail(timeoutsInsert(
                  [k EXCEPT !.tcb[k.s_currentTask].m_waitUntil = k.s_ticks + sleepDelta(count)],
                  k.s_currentTask), "Sleep: !s_criticalSection")
    ELSE sleepSwitch(timeoutsInsert(
             [k EXCEPT !.tcb[k.s_currentTask].m_waitUntil = k.s_ticks + sleepDelta(count)],
             k.s_currentTask))
svcSleep(k, count) ==
    IF k.s_criticalSection THEN Fail(k, "Sleep: !s_criticalSection")
    ELSE IF k.s_currentTask = Null THEN Fail(k, "Sleep: s_currentTask != nullptr")
    ELSE IF sleepDelta(count) < 0 THEN Fail(k, "Sleep: delta.count() >= 0")
    ELSE sleepSwitch(timeoutsInsert(
             [k EXCEPT !.tcb[k.s_currentTask].m_waitUntil = k.s_ticks + sleepDelta(count)],
             k.s_currentTask))

\* The same with its first assert: isThread is what SVC_Handler reads from
\* the exception return value, true when the service call was made in
\* thread mode
serviceCallSleep(k, count, isThread) ==
    IF ~isThread THEN Fail(k, "Sleep: isThread") ELSE svcSleep(k, count)

\* Scheduler::serviceCallHandler, case Switch
svcSwitch(k) ==
    IF k.s_criticalSection THEN Fail(k, "Switch: !s_criticalSection")
    ELSE doSwitch(k)

\* Scheduler::serviceCallHandler, case Wait; c, tmo and m are frame->r0,
\* frame->r1 and frame->r2 (m is Null for the waits without a mutex)
\* if (timeout.count() >= 0) { ... }
waitTimeout(k, t, tmo) ==
    IF tmo < 0 THEN k
    ELSE timeoutsInsert([k EXCEPT !.tcb[t].m_waitUntil = k.s_ticks + tmo], t)
\* mutex->m_criticalSection.disable(); s_criticalSection = false;
disableSection(k, m) ==
    IF k.err # NoErr THEN k
    ELSE IF ~k.mutex[m].m_criticalSection THEN Fail(k, "CriticalSection::disable: m_valid")
    ELSE [k EXCEPT !.mutex[m].m_criticalSection = FALSE, !.s_criticalSection = FALSE]
\* if (mutex != nullptr) { ... }
waitRelease(k, t, m) ==
    IF k.err # NoErr \/ m = Null THEN k
    ELSE IF ~k.s_criticalSection THEN Fail(k, "Wait: s_criticalSection == true")
    ELSE disableSection(releaseFromServiceCall([k EXCEPT !.tcb[t].m_mutex = m], m), m)
\* s_currentTask->m_waiting = condition; s_currentTask = nullptr; doSwitch()
waitSwitch(k, t, c) ==
    IF k.err # NoErr THEN k
    ELSE doSwitch([k EXCEPT !.tcb[t].m_waiting = c, !.s_currentTask = Null])
svcWait(k, c, tmo, m) ==
    IF k.s_currentTask = Null THEN Fail(k, "Wait: s_currentTask != nullptr")
    ELSE waitSwitch(
             addWaiting(waitRelease(waitTimeout(k, k.s_currentTask, tmo),
                                    k.s_currentTask, m),
                        c, k.s_currentTask),
             k.s_currentTask, c)

(***************************************************************************)
(* ConditionVariable::notify_one and notify_all, in the two parts between  *)
(* which an exception can be taken: up to m_waitingList.pop_front(), and   *)
(* from Scheduler::wakeUp on.  The mutex of condition variable c is mutex  *)
(* c.  current is the caller's interrupt priority (None for a task).       *)
(***************************************************************************)
valueOr(p, d) == IF p = None THEN d ELSE p

\* A notifyPop that, finding the waiting list empty, asks for a switch.
notifyPop_Switch(k, c, current) ==
    IF k.err # NoErr THEN k
    ELSE IF ~emptyAssert(k.m_waitingList[c]) THEN Fail(k, "empty: m_first/m_size")
    ELSE IF empty(k.m_waitingList[c])
         THEN [triggerSoftSwitch(unlock(k, c, current = None)) EXCEPT !.ret = Null]
         ELSE [SetWaiting(k, c, pop_front(k.m_waitingList[c], k.waitingNode))
               EXCEPT !.ret = k.m_waitingList[c].m_first]

\* if (m_waitingList.empty()) return; else { front(); pop_front(); ... }
\* k.ret is the task popped, or Null.
notifyPop(k, c, current) ==
    IF k.err # NoErr THEN k
    ELSE IF ~emptyAssert(k.m_waitingList[c]) THEN Fail(k, "empty: m_first/m_size")
    ELSE IF empty(k.m_waitingList[c])
         THEN [unlock(k, c, current = None) EXCEPT !.ret = Null]
         ELSE [SetWaiting(k, c, pop_front(k.m_waitingList[c], k.waitingNode))
               EXCEPT !.ret = k.m_waitingList[c].m_first]
notifyBegin(k, c, current) ==
    IF maskedValue(valueOr(k.mutex[c].m_priority, kServiceCallPriority))
           < maskedValue(valueOr(current, kServiceCallPriority))
    THEN Fail(k, "notify: priority above the mutex")
    ELSE IF maskedValue(valueOr(k.mutex[c].m_priority, kServiceCallPriority))
                < maskedValue(kServiceCallPriority)
    THEN Fail(k, "notify: mutex above the service call")
    ELSE notifyPop(lock(k, c, current = None, current), c, current)

\* After wakeUp: the end of notify_one, or the next turn of notify_all's
\* loop.  k.ret is the next task popped, or Null.
notifyNext(k, c, all, current) ==
    IF k.err # NoErr THEN k
    ELSE IF all THEN notifyPop(k, c, current)
    ELSE [unlock(k, c, current = None) EXCEPT !.ret = Null]
notifyEnd(k, c, task, all, current, lands) ==
    notifyNext(wakeUp(k, task, c, lands), c, all, current)

(***************************************************************************)
(* The initial state: everything constructed, no task started, the         *)
(* scheduler not started.  taskPrio and mutexPrio are the constructor      *)
(* arguments of the tasks and of the mutexes.                              *)
(***************************************************************************)
InitKernel(taskPrio, mutexPrio) ==
    /\ s_isStarted = FALSE
    /\ s_ticks = 0
    /\ s_allTasks = EmptyList
    /\ s_timeouts = EmptyList
    /\ s_ready = EmptyList
    /\ s_idling = FALSE
    /\ s_mayNeedSwitch = FALSE
    /\ s_previousTask = Null
    /\ s_currentTask = Null
    /\ s_nextTask = Null
    /\ s_criticalSection = FALSE
    /\ tcb = [t \in Tasks |-> [m_active |-> FALSE, m_priority |-> taskPrio[t],
                               m_lastStarted |-> 0, m_waitUntil |-> None,
                               m_waiting |-> Null, m_mutex |-> Null,
                               m_stackPointer |-> "old"]]
    /\ waitingNode = [t \in Tasks |-> FreeNode]
    /\ timeoutNode = [t \in Tasks |-> FreeNode]
    /\ handleNode = [t \in Tasks |-> FreeNode]
    /\ m_waitingList = [c \in CVs |-> EmptyList]
    /\ mutex = [m \in Mutexes |-> [m_locked |-> FALSE, m_previousLock |-> 0,
                                   m_criticalSection |-> FALSE,
                                   m_priority |-> mutexPrio[m]]]
    /\ basepri = 0
    /\ primask = FALSE
    /\ pendSv = FALSE
    /\ frame_r0 = [t \in Tasks |-> ArgWord]
    /\ running = Boot
    /\ isr = [pc |-> "idle", cv |-> Null, task |-> Null, mutex |-> Null]
    /\ pc = [t \in Tasks |-> "off"]
    /\ call = [t \in Tasks |-> [cv |-> Null, task |-> Null]]
    /\ held = [t \in Tasks |-> <<>>]
    /\ wokenBy = [t \in Tasks |-> "none"]
    /\ halted = NoErr

\* The application builds no IsrPriority with FromPreemptSub.
NoIsrPriority == [PreemptBits |-> None, preempt |-> None, sub |-> None,
                  m_value |-> None, value |-> None, gotPreempt |-> None,
                  gotSub |-> None]

InitWith(taskPrio, mutexPrio) ==
    /\ InitKernel(taskPrio, mutexPrio)
    /\ isrPriority = NoIsrPriority

(***************************************************************************)
(* The core: which exception is taken, and when thread mode executes.      *)
(***************************************************************************)
\* The priority of the interrupt whose routine notifies.
IsrPrio == 2 * kServiceCallPriority

\* An exception of priority p is not masked by PRIMASK or BASEPRI.
Unmasked(p) == ~primask /\ (basepri = 0 \/ maskedValue(p) < maskedValue(basepri))
\* No handler is active (the handlers but the interrupt's run in one step).
ThreadMode == isr.pc = "idle"
PendSvTaken == pendSv /\ Unmasked(kPendSvPriority)
\* Task t executes its next instruction in thread mode.
ThreadRuns(t) ==
    /\ halted = NoErr
    /\ s_isStarted
    /\ running = t
    /\ ThreadMode
    /\ ~PendSvTaken

\* The tasks whose m_stackPointer is not the address of their context.
Stale(S) == {t \in S : tcb[t].m_stackPointer # "ctx"}

\* What an action leaves: the kernel's state k and, unless an assert
\* failed, the new places of the callers.
Leave(k, newPc, newCall, newHeld, newIsr) ==
    /\ Commit(k)
    /\ IF k.err = NoErr
       THEN pc' = newPc /\ call' = newCall /\ held' = newHeld /\ isr' = newIsr
       ELSE UNCHANGED <<pc, call, held, isr>>

\* The frame the core stacks when task t executes svc: r0 is the argument.
Svc(t) == [K EXCEPT !.frame_r0[t] = ArgWord]
\* Task t's frame is unstacked and its r0 has been read, or is not read
\* (only wait_for reads it): the word and its history are forgotten.
Unstacked(k, t) == [k EXCEPT !.frame_r0[t] = ArgWord, !.wokenBy[t] = "none"]

(***************************************************************************)
(* The actions.  A task's calls are made in thread mode by the task that   *)
(* executes; the callers respect the documented preconditions (no          *)
(* blocking call with a mutex locked, locks properly nested).              *)
(***************************************************************************)
\* Task::start(entry), called before Scheduler::start; the application
\* starts its tasks in the order of their numbers
TaskStart(t) ==
    /\ halted = NoErr /\ ~s_isStarted /\ running = Boot
    /\ pc[t] = "off"
    /\ \A u \in 1 .. (t - 1) : pc[u] # "off"
    /\ Leave(taskStart(K, t), [pc EXCEPT ![t] = "run"], call, held, isr)
\* Task::start(entry), called before Scheduler::start, the tasks in any order
TaskStartAny(t) ==
    /\ halted = NoErr /\ ~s_isStarted /\ running = Boot
    /\ pc[t] = "off"
    /\ Leave(taskStart(K, t), [pc EXCEPT ![t] = "run"], call, held, isr)
\* Task::start(entry), called by task u
TaskStartLate(u, t) ==
    /\ ThreadRuns(u) /\ pc[u] = "run" /\ held[u] = <<>>
    /\ pc[t] = "off"
    /\ Leave(taskStart([K EXCEPT !.frame_r0[t] = ArgWord], t),
             [pc EXCEPT ![t] = "run"], call, held, isr)

\* Scheduler::start(idle)
Start ==
    /\ halted = NoErr /\ ~s_isStarted /\ running = Boot
    /\ Leave(schedulerStart(K), pc, call, held, isr)

\* sleep_for by a task that holds a mutex, and so a critical section
SleepLocked(t, n) ==
    /\ ThreadRuns(t) /\ pc[t] = "run" /\ held[t] # <<>>
    /\ Leave(serviceCallSleep(Svc(t), n, TRUE), pc, call, held, isr)

\* sleep_for by an interrupt service routine
IsrSleep(n) ==
    /\ halted = NoErr /\ s_isStarted
    /\ isr.pc = "idle" /\ Unmasked(IsrPrio)
    /\ Leave(serviceCallSleep(K, n, FALSE), pc, call, held, isr)
\* Scheduler::start(idle) called again, by task t
StartAgain(t) ==
    /\ ThreadRuns(t) /\ pc[t] = "run" /\ held[t] = <<>>
    /\ Leave(schedulerStart(K), pc, call, held, isr)

\* Scheduler::yield()
Yield(t) ==
    /\ ThreadRuns(t) /\ pc[t] = "run" /\ held[t] = <<>>
    /\ Leave(svcSwitch(Svc(t)), pc, call, held, isr)

\* sleep_for(n)
SleepCall(t, n, newPc, newCall) ==
    /\ ThreadRuns(t) /\ pc[t] = "run" /\ held[t] = <<>>
    /\ Leave(svcSleep(Svc(t), n), newPc, newCall, held, isr)
Sleep(t, n) == SleepCall(t, n, pc, call)
\* The same by a task that has read Scheduler::now() before the call and
\* remembers it with the duration
SleepFor(t, n) ==
    SleepCall(t, n, [pc EXCEPT ![t] = "sleep"],
              [call EXCEPT ![t] = [since |-> s_ticks, for |-> n]])

\* ConditionVariable::wait(), up to the return from the service call
Wait(t, c) ==
    /\ ThreadRuns(t) /\ pc[t] = "run" /\ held[t] = <<>>
    /\ Leave(svcWait(Svc(t), c, -1, Null), [pc EXCEPT ![t] = "wait"], call, held, isr)

\* ConditionVariable::wait() by a task that holds a mutex, and so a critical
\* section
WaitLocked(t, c) ==
    /\ ThreadRuns(t) /\ pc[t] = "run" /\ held[t] # <<>>
    /\ Leave(svcWait(Svc(t), c, -1, Null), [pc EXCEPT ![t] = "wait"], call, held, isr)

\* ConditionVariable::wait_for(n), up to the return from the service call
WaitFor(t, c, n) ==
    /\ ThreadRuns(t) /\ pc[t] = "run" /\ held[t] = <<>>
    /\ Leave(svcWait(Svc(t), c, n, Null), [pc EXCEPT ![t] = "wait_for"], call, held, isr)

\* ConditionVariable::wait(mutex) when n is -1, wait_for(mutex, n) otherwise
WaitMutex(t, c, m, n) ==
    /\ ThreadRuns(t) /\ pc[t] = "run" /\ held[t] = <<m>>
    /\ Leave(svcWait(Svc(t), c, n, m),
             [pc EXCEPT ![t] = IF n < 0 THEN "wait" ELSE "wait_for"], call, held, isr)

\* ConditionVariable::wait_until(tp), which is wait_for(tp - Scheduler::now());
\* the task remembers the time of the call and the time point
WaitUntil(t, c, tp) ==
    /\ ThreadRuns(t) /\ pc[t] = "run" /\ held[t] = <<>>
    /\ Leave(svcWait(Svc(t), c, tp - s_ticks, Null), [pc EXCEPT ![t] = "wait_for"],
             [call EXCEPT ![t] = [since |-> s_ticks, until |-> tp]], held, isr)

\* ConditionVariable::wait_for, from "mov result, r0" on
WaitForReturn(t) ==
    /\ ThreadRuns(t) /\ pc[t] = "wait_for"
    /\ Leave(IF frame_r0[t] \in {no_timeout, timeout} THEN Unstacked(K, t)
             ELSE Fail(K, "wait_for: result == 0 || result == 1"),
             [pc EXCEPT ![t] = "run"], call, held, isr)

\* PriorityMutex::lock
Lock(t, m) ==
    /\ ThreadRuns(t) /\ pc[t] = "run"
    /\ m \notin Range(held[t])
    /\ Leave(lock(K, m, TRUE, None), pc, call, [held EXCEPT ![t] = Append(@, m)], isr)

\* PriorityMutex::unlock
Unlock(t, m) ==
    /\ ThreadRuns(t) /\ pc[t] = "run"
    /\ held[t] # <<>> /\ held[t][Len(held[t])] = m
    /\ Leave(unlock(K, m, TRUE), pc, call,
             [held EXCEPT ![t] = SubSeq(@, 1, Len(@) - 1)], isr)

\* PriorityMutex::unlock on a mutex that no task holds: never locked, or
\* released by the unlock that matched its lock
UnlockAgain(t, m) ==
    /\ ThreadRuns(t) /\ pc[t] = "run"
    /\ \A u \in Tasks : m \notin Range(held[u])
    /\ Leave(unlock(K, m, TRUE), pc, call, held, isr)

\* ConditionVariable::notify_one / notify_all, up to pop_front
Popped(k, t, c, all) ==
    Leave(k,
          IF k.ret = Null THEN [pc EXCEPT ![t] = "run"]
          ELSE [pc EXCEPT ![t] = IF all THEN "notify_all" ELSE "notify_one"],
          [call EXCEPT ![t] = [cv |-> IF k.ret = Null THEN Null ELSE c, task |-> k.ret]],
          held, isr)
Notify(t, c, all) ==
    /\ ThreadRuns(t) /\ pc[t] = "run"
    /\ Popped(notifyBegin(K, c, None), t, c, all)

\* ConditionVariable::notify_one / notify_all, from Scheduler::wakeUp on
NotifyWake(t) ==
    /\ ThreadRuns(t) /\ pc[t] \in {"notify_one", "notify_all"}
    /\ \E lands \in SUBSET Stale({call[t].task}) :
         Popped(notifyEnd(K, call[t].cv, call[t].task, pc[t] = "notify_all", None, lands),
                t, call[t].cv, pc[t] = "notify_all")

\* Task::priority(p), called by task t for task target
SetPriority(t, target, p) ==
    /\ ThreadRuns(t) /\ pc[t] = "run"
    /\ p # tcb[target].m_priority
    /\ Leave(updatePriority(K, target, p), pc, call, held, isr)

\* Task::stop() of task target, called by task t; for t itself this is also
\* the return of the task's entry function (taskStarter)
Stop(t, target) ==
    /\ ThreadRuns(t) /\ pc[t] = "run" /\ held[t] = <<>>
    /\ tcb[target].m_active
    /\ Leave(svcTerminate(Svc(t), target), [pc EXCEPT ![target] = "off"],
             [call EXCEPT ![target] = [cv |-> Null, task |-> Null]],
             [held EXCEPT ![target] = <<>>], isr)

\* Task::stop() of task target by task t in its two parts: the check of
\* isStarted(), after which t can be preempted, and the service call
StopCheck(t, target) ==
    /\ ThreadRuns(t) /\ pc[t] = "run" /\ held[t] = <<>>
    /\ tcb[target].m_active
    /\ Leave(K, [pc EXCEPT ![t] = "stop"],
             [call EXCEPT ![t] = [cv |-> Null, task |-> target]], held, isr)
Terminated(k, t, target) ==
    Leave(k,
          IF tcb[target].m_active
          THEN [pc EXCEPT ![t] = "run", ![target] = "off"]
          ELSE [pc EXCEPT ![t] = "run"],
          IF tcb[target].m_active
          THEN [call EXCEPT ![t] = [cv |-> Null, task |-> Null],
                            ![target] = [cv |-> Null, task |-> Null]]
          ELSE [call EXCEPT ![t] = [cv |-> Null, task |-> Null]],
          IF tcb[target].m_active THEN [held EXCEPT ![target] = <<>>] ELSE held,
          isr)
Terminate(t) ==
    /\ ThreadRuns(t) /\ pc[t] = "stop"
    /\ Terminated(svcTerminate(Svc(t), call[t].task), t, call[t].task)

\* SysTick_Handler
Tick ==
    /\ halted = NoErr /\ s_isStarted
    /\ s_ticks < MaxTicks
    /\ Unmasked(kSystickPriority)
    /\ ThreadMode \/ maskedValue(kSystickPriority) < maskedValue(IsrPrio)
    /\ \E lands \in SUBSET Stale({t \in Tasks : /\ tcb[t].m_waiting # Null
                                                /\ tcb[t].m_waitUntil # None
                                                /\ tcb[t].m_waitUntil <= s_ticks + 1}) :
         Leave(SystickHandler(K, lands), pc, call, held, isr)

\* PendSV_Handler, and the exception return that unstacks the frame of the
\* task it switched to: a task that was in wait() returns from it
Restored(k) ==
    IF k.err = NoErr /\ k.running \in Tasks /\ pc[k.running] # "wait_for"
    THEN Unstacked(k, k.running) ELSE k
Resumed(k) ==
    Leave(Restored(k),
          IF k.running \in Tasks /\ pc[k.running] \in {"wait", "sleep"}
          THEN [pc EXCEPT ![k.running] = "run"] ELSE pc,
          call, held, isr)
PendSV ==
    /\ halted = NoErr
    /\ PendSvTaken /\ ThreadMode
    /\ Resumed(pendSvHandler(K))

\* An interrupt service routine that calls notify_one: up to pop_front
IsrPopped(k, c) ==
    Leave(k, pc, call, held,
          IF k.ret = Null THEN isr ELSE [pc |-> "notify", cv |-> c, task |-> k.ret, mutex |-> Null])
IsrNotify(c) ==
    /\ halted = NoErr /\ s_isStarted
    /\ isr.pc = "idle" /\ Unmasked(IsrPrio)
    /\ IsrPopped(notifyBegin(K, c, IsrPrio), c)

\* The same routine, from Scheduler::wakeUp to its return
IsrNotifyWake ==
    /\ halted = NoErr
    /\ isr.pc = "notify"
    /\ \E lands \in SUBSET Stale({isr.task}) :
         Leave(notifyEnd(K, isr.cv, isr.task, FALSE, IsrPrio, lands), pc, call, held,
               [pc |-> "idle", cv |-> Null, task |-> Null, mutex |-> Null])

\* An interrupt service routine that locks mutex m, which its priority
\* allows it to lock, and then unlocks it and returns
IsrLock(m) ==
    /\ halted = NoErr /\ s_isStarted
    /\ isr.pc = "idle" /\ Unmasked(IsrPrio)
    /\ mutex[m].m_priority \notin {None, 0}
    /\ maskedValue(IsrPrio) >= maskedValue(mutex[m].m_priority)
    /\ Leave(lock(K, m, FALSE, IsrPrio), pc, call, held,
             [pc |-> "locked", cv |-> Null, task |-> Null, mutex |-> m])

IsrUnlock ==
    /\ halted = NoErr
    /\ isr.pc = "locked"
    /\ Leave(unlock(K, isr.mutex, FALSE), pc, call, held,
             [pc |-> "idle", cv |-> Null, task |-> Null, mutex |-> Null])

(***************************************************************************)
(* The specifications.                                                     *)
(***************************************************************************)
\* Task 1 is Priority::Low (the more urgent), the others Priority::Normal;
\* the condition variables' mutexes have no interrupt priority; the
\* application's mutexes have the priorities 128, 192, 128, ...
TaskPrio == [t \in Tasks |-> IF t = 1 THEN 64 ELSE 128]
MutexPrio == [m \in Mutexes |-> IF m \in CVs THEN None
                                ELSE IF (m - NumCV) % 2 = 1 THEN 128 ELSE 192]

Init == InitWith(TaskPrio, MutexPrio)

\* Tasks that yield, sleep, wait, notify and change priorities.
Next ==
    \/ \E t \in Tasks : TaskStart(t)
    \/ Start
    \/ \E t \in Tasks : Yield(t)
    \/ \E t \in Tasks, n \in 0 .. MaxTimeout : Sleep(t, n)
    \/ \E t \in Tasks, c \in CVs : Wait(t, c)
    \/ \E t \in Tasks, c \in CVs : Notify(t, c, FALSE)
    \/ \E t \in Tasks : NotifyWake(t)
    \/ \E t, target \in Tasks, p \in Prios : SetPriority(t, target, p)
    \/ Tick
    \/ PendSV

Spec == Init /\ [][Next]_vars

\* Tasks that wait on a condition variable, with and without a timeout, and
\* notify it.
NextWait ==
    \/ \E t \in Tasks : TaskStart(t)
    \/ Start
    \/ \E t \in Tasks, c \in CVs : Wait(t, c)
    \/ \E t \in Tasks, c \in CVs, n \in 0 .. MaxTimeout : WaitFor(t, c, n)
    \/ \E t \in Tasks : WaitForReturn(t)
    \/ \E t \in Tasks, c \in CVs : Notify(t, c, FALSE)
    \/ \E t \in Tasks : NotifyWake(t)
    \/ Tick
    \/ PendSV

SpecWait == Init /\ [][NextWait]_vars

\* Tasks that wait, with a timeout of no tick or without one, and change
\* priorities.
NextPrio ==
    \/ \E t \in Tasks : TaskStart(t)
    \/ Start
    \/ \E t \in Tasks, c \in CVs : Wait(t, c)
    \/ \E t \in Tasks, c \in CVs : WaitFor(t, c, 0)
    \/ \E t \in Tasks : WaitForReturn(t)
    \/ \E t, target \in Tasks, p \in Prios : SetPriority(t, target, p)
    \/ Tick
    \/ PendSV

SpecPrio == Init /\ [][NextPrio]_vars

\* Tasks of one priority (Priority::Normal) that only yield.
InitRR == InitWith([t \in Tasks |-> 128], MutexPrio)

NextRR ==
    \/ \E t \in Tasks : TaskStart(t)
    \/ Start
    \/ \E t \in Tasks : Yield(t)
    \/ Tick
    \/ PendSV

SpecRR == InitRR /\ [][NextRR]_vars

\* Tasks that lock one mutex at a time, wait with it on a condition
\* variable, with and without a timeout, and notify the condition variable.
\* The application waits on condition variable c with one mutex, MutexOf(c).
MutexOf(c) == NumCV + 1 + ((c - 1) % NumMutex)

NextMutex ==
    \/ \E t \in Tasks : TaskStart(t)
    \/ Start
    \/ \E t \in Tasks, m \in UserMutexes : held[t] = <<>> /\ Lock(t, m)
    \/ \E t \in Tasks, m \in UserMutexes : Unlock(t, m)
    \/ \E t \in Tasks, c \in CVs, n \in -1 .. MaxTimeout :
          WaitMutex(t, c, MutexOf(c), n)
    \/ \E t \in Tasks : WaitForReturn(t)
    \/ \E t \in Tasks, c \in CVs : Notify(t, c, FALSE)
    \/ \E t \in Tasks : NotifyWake(t)
    \/ Tick
    \/ PendSV

SpecMutex == Init /\ [][NextMutex]_vars

\* Tasks that sleep and that lock and unlock mutexes, nested, and an
\* interrupt service routine that locks and unlocks a mutex.
NextNest ==
    \/ \E t \in Tasks : TaskStart(t)
    \/ Start
    \/ \E t \in Tasks, n \in 0 .. MaxTimeout : Sleep(t, n)
    \/ \E t \in Tasks, m \in UserMutexes : Lock(t, m)
    \/ \E t \in Tasks, m \in UserMutexes : Unlock(t, m)
    \/ \E m \in UserMutexes : IsrLock(m)
    \/ IsrUnlock
    \/ Tick
    \/ PendSV

SpecNest == Init /\ [][NextNest]_vars

\* Tasks that wait with a timeout on a condition variable whose mutex has
\* the priority of an interrupt, and the interrupt's service routine, which
\* notifies the condition variable.
InitIsr == InitWith(TaskPrio, [m \in Mutexes |-> IF m \in CVs THEN IsrPrio ELSE MutexPrio[m]])

NextIsr ==
    \/ \E t \in Tasks : TaskStart(t)
    \/ Start
    \/ \E t \in Tasks, c \in CVs, n \in 0 .. MaxTimeout : WaitFor(t, c, n)
    \/ \E t \in Tasks : WaitForReturn(t)
    \/ \E c \in CVs : IsrNotify(c)
    \/ IsrNotifyWake
    \/ Tick
    \/ PendSV

SpecIsr == InitIsr /\ [][NextIsr]_vars

\* Tasks that take critical sections (mutexes without an interrupt
\* priority, nested or not), sleep and wait, and an interrupt service
\* routine that notifies the condition variable the tasks wait on.
InitSection == InitWith(TaskPrio, [m \in Mutexes |-> IF m \in CVs THEN IsrPrio ELSE None])

NextSection ==
    \/ \E t \in Tasks : TaskStart(t)
    \/ Start
    \/ \E t \in Tasks, n \in 0 .. MaxTimeout : Sleep(t, n)
    \/ \E t \in Tasks, m \in UserMutexes : Lock(t, m)
    \/ \E t \in Tasks, m \in UserMutexes : Unlock(t, m)
    \/ \E t \in Tasks, c \in CVs : Wait(t, c)
    \/ \E c \in CVs : IsrNotify(c)
    \/ IsrNotifyWake
    \/ Tick
    \/ PendSV

SpecSection == InitSection /\ [][NextSection]_vars

\* The same without the system tick, and with the progress the core and the
\* kernel guarantee.  Each condition is the weak (the second: the strong)
\* fairness of an action, with the action's enabling condition written out:
\* a pending PendSV that is not masked is taken; an interrupt service
\* routine runs to its end; the task that executes reaches its next unlock,
\* releases each mutex it locked, whatever it locks and unlocks inside, and
\* so leaves the critical section it opened (no other task can run
\* meanwhile, and no blocking call is allowed in a critical section).
NextDeferred ==
    \/ \E t \in Tasks : TaskStart(t)
    \/ Start
    \/ \E t \in Tasks, m \in UserMutexes : Lock(t, m)
    \/ \E t \in Tasks, m \in UserMutexes : Unlock(t, m)
    \/ \E t \in Tasks, c \in CVs : Wait(t, c)
    \/ \E c \in CVs : IsrNotify(c)
    \/ IsrNotifyWake
    \/ PendSV

PendSvEnabled == halted = NoErr /\ PendSvTaken /\ ThreadMode
IsrNotifyWakeEnabled == halted = NoErr /\ isr.pc = "notify"
UnlockEnabled == \E t \in Tasks : ThreadRuns(t) /\ pc[t] = "run" /\ held[t] # <<>>
SectionEndEnabled ==
    \E t \in Tasks :
        /\ ThreadRuns(t) /\ pc[t] = "run" /\ held[t] # <<>>
        /\ mutex[held[t][Len(held[t])]].m_criticalSection
SectionEnd ==
    \E t \in Tasks, m \in UserMutexes : mutex[m].m_criticalSection /\ Unlock(t, m)

\* The unlock of the mutex a task locked when it held d - 1 others.
UnlockAtEnabled(d) ==
    \E t \in Tasks : ThreadRuns(t) /\ pc[t] = "run" /\ Len(held[t]) = d
UnlockAt(d) ==
    \E t \in Tasks, m \in UserMutexes : Len(held[t]) = d /\ Unlock(t, m)

FairDeferred ==
    /\ []<>(~PendSvEnabled) \/ []<><<PendSV>>_vars
    /\ []<>(~IsrNotifyWakeEnabled) \/ []<><<IsrNotifyWake>>_vars
    /\ []<>(~UnlockEnabled)
         \/ []<><<\E t \in Tasks, m \in UserMutexes : Unlock(t, m)>>_vars
    /\ <>[](~SectionEndEnabled) \/ []<><<SectionEnd>>_vars
    /\ \A d \in 1 .. NumMutex :
         <>[](~UnlockAtEnabled(d)) \/ []<><<UnlockAt(d)>>_vars

SpecDeferred == InitSection /\ [][NextDeferred]_vars /\ FairDeferred

\* Tasks that sleep, for a few ticks or for the longest duration, yield and
\* return from their entry function, as in scenario S1.
SleepTimes == (0 .. MaxTimeout) \cup {MaxDuration}

NextSleep ==
    \/ \E t \in Tasks : TaskStart(t)
    \/ Start
    \/ \E t \in Tasks, n \in SleepTimes : SleepFor(t, n)
    \/ \E t \in Tasks : Yield(t)
    \/ \E t \in Tasks : Stop(t, t)
    \/ Tick
    \/ PendSV

SpecSleep == Init /\ [][NextSleep]_vars

\* Tasks that sleep and wait, with and without a timeout, are stopped by
\* themselves or by another task (the last task is the one stopped from
\* outside), and are started again.
NextStop ==
    \/ \E t \in Tasks : TaskStart(t)
    \/ Start
    \/ \E u, t \in Tasks : TaskStartLate(u, t)
    \/ \E t \in Tasks : \E target \in {t, NumTasks} : StopCheck(t, target)
    \/ \E t \in Tasks : Terminate(t)
    \/ \E t \in Tasks : Sleep(t, 0)
    \/ \E t \in Tasks, c \in CVs : Wait(t, c)
    \/ \E t \in Tasks, c \in CVs : WaitFor(t, c, 0)
    \/ \E t \in Tasks : WaitForReturn(t)
    \/ Tick
    \/ PendSV

SpecStop == Init /\ [][NextStop]_vars

\* Tasks that yield, one of which calls Scheduler::start a second time.
NextStart ==
    \/ \E t \in Tasks : TaskStart(t)
    \/ Start
    \/ \E t \in Tasks : StartAgain(t)
    \/ \E t \in Tasks : Yield(t)
    \/ \E t \in Tasks : Sleep(t, 0)
    \/ Tick
    \/ PendSV

SpecStart == Init /\ [][NextStart]_vars

\* Tasks that wait on a condition variable, with and without a timeout, and
\* wake all the waiters with notify_all.
NextAll ==
    \/ \E t \in Tasks : TaskStart(t)
    \/ Start
    \/ \E t \in Tasks, c \in CVs : Wait(t, c)
    \/ \E t \in Tasks, c \in CVs, n \in 0 .. MaxTimeout : WaitFor(t, c, n)
    \/ \E t \in Tasks : WaitForReturn(t)
    \/ \E t \in Tasks, c \in CVs : Notify(t, c, TRUE)
    \/ \E t \in Tasks : NotifyWake(t)
    \/ Tick
    \/ PendSV

SpecAll == Init /\ [][NextAll]_vars

\* Tasks that wait on a condition variable, without a timeout or with one of
\* no tick, change the priority of another task, and wake one waiter with
\* notify_one.
NextOne ==
    \/ \E t \in Tasks : TaskStart(t)
    \/ Start
    \/ \E t \in Tasks, c \in CVs : Wait(t, c)
    \/ \E t \in Tasks, c \in CVs : WaitFor(t, c, 0)
    \/ \E t \in Tasks : WaitForReturn(t)
    \/ \E t \in Tasks, c \in CVs : Notify(t, c, FALSE)
    \/ \E t \in Tasks, target \in Tasks \ {1}, p \in Prios : SetPriority(t, target, p)
    \/ \E t \in Tasks : NotifyWake(t)
    \/ Tick
    \/ PendSV

SpecOne == Init /\ [][NextOne]_vars

\* Tasks that sleep and wait with a timeout, and are released by the tick
\* only.
NextTimed ==
    \/ \E t \in Tasks : TaskStart(t)
    \/ Start
    \/ \E t \in Tasks, n \in 0 .. MaxTimeout : Sleep(t, n)
    \/ \E t \in Tasks, c \in CVs, n \in 0 .. MaxTimeout : WaitFor(t, c, n)
    \/ \E t \in Tasks : WaitForReturn(t)
    \/ Tick
    \/ PendSV

SpecTimed == Init /\ [][NextTimed]_vars

\* Tasks that wait until a time point, which may have passed already, and
\* that nobody notifies.
NextUntil ==
    \/ \E t \in Tasks : TaskStart(t)
    \/ Start
    \/ \E t \in Tasks, c \in CVs, tp \in 0 .. MaxTicks : WaitUntil(t, c, tp)
    \/ \E t \in Tasks : WaitForReturn(t)
    \/ Tick
    \/ PendSV

SpecUntil == Init /\ [][NextUntil]_vars

\* Tasks that lock and unlock mutexes and sleep, also with a mutex locked,
\* and an interrupt service routine that sleeps.
NextBadSleep ==
    \/ \E t \in Tasks : TaskStart(t)
    \/ Start
    \/ \E t \in Tasks, m \in UserMutexes : Lock(t, m)
    \/ \E t \in Tasks, m \in UserMutexes : Unlock(t, m)
    \/ \E t \in Tasks, n \in 0 .. MaxTimeout : Sleep(t, n)
    \/ \E t \in Tasks, n \in 0 .. MaxTimeout : SleepLocked(t, n)
    \/ \E n \in 0 .. MaxTimeout : IsrSleep(n)
    \/ Tick
    \/ PendSV

SpecBadSleep == Init /\ [][NextBadSleep]_vars

\* Tasks started in any order, or none, before the scheduler, which yield
\* and sleep once it runs.
NextBoot ==
    \/ \E t \in Tasks : TaskStartAny(t)
    \/ Start
    \/ \E t \in Tasks : Yield(t)
    \/ \E t \in Tasks : Sleep(t, 0)
    \/ Tick
    \/ PendSV

SpecBoot == Init /\ [][NextBoot]_vars

\* Tasks that start other tasks while the scheduler runs, lock and unlock
\* mutexes, wait on a condition variable and notify it.
NextKernel ==
    \/ \E t \in Tasks : TaskStart(t)
    \/ Start
    \/ \E u, t \in Tasks : TaskStartLate(u, t)
    \/ \E t \in Tasks, m \in UserMutexes : held[t] = <<>> /\ Lock(t, m)
    \/ \E t \in Tasks, m \in UserMutexes : Unlock(t, m)
    \/ \E t \in Tasks, c \in CVs : Wait(t, c)
    \/ \E t \in Tasks, c \in CVs : Notify(t, c, FALSE)
    \/ \E t \in Tasks : NotifyWake(t)
    \/ Tick
    \/ PendSV

SpecKernel == Init /\ [][NextKernel]_vars

\* Tasks that take critical sections and wait on the condition variable,
\* with a critical section active or not, and an interrupt service routine
\* that notifies it.
NextLockedWait ==
    \/ \E t \in Tasks : TaskStart(t)
    \/ Start
    \/ \E t \in Tasks, m \in UserMutexes : held[t] = <<>> /\ Lock(t, m)
    \/ \E t \in Tasks, m \in UserMutexes : Unlock(t, m)
    \/ \E t \in Tasks, c \in CVs : Wait(t, c)
    \/ \E t \in Tasks, c \in CVs : WaitLocked(t, c)
    \/ \E c \in CVs : IsrNotify(c)
    \/ IsrNotifyWake
    \/ Tick
    \/ PendSV

SpecLockedWait == InitSection /\ [][NextLockedWait]_vars

\* Tasks that lock and unlock mutexes, nested, and call unlock on mutexes
\* that are not locked.
NextUnlock ==
    \/ \E t \in Tasks : TaskStart(t)
    \/ Start
    \/ \E t \in Tasks, m \in UserMutexes : Lock(t, m)
    \/ \E t \in Tasks, m \in UserMutexes : Unlock(t, m)
    \/ \E t \in Tasks, m \in UserMutexes : UnlockAgain(t, m)
    \/ \E t \in Tasks : Sleep(t, 0)
    \/ Tick
    \/ PendSV

SpecUnlock == Init /\ [][NextUnlock]_vars

\* Tasks that sleep, wait on a condition variable, and notify it with
\* notify_one and with notify_all.
NextNotify ==
    \/ \E t \in Tasks : TaskStart(t)
    \/ Start
    \/ \E t \in Tasks, n \in 0 .. MaxTimeout : Sleep(t, n)
    \/ \E t \in Tasks, c \in CVs : Wait(t, c)
    \/ \E t \in Tasks, c \in CVs, all \in BOOLEAN : Notify(t, c, all)
    \/ \E t \in Tasks : NotifyWake(t)
    \/ Tick
    \/ PendSV

SpecNotify == Init /\ [][NextNotify]_vars

(***************************************************************************)
(* IsrPriority.  The operands are promoted to 32-bit integers, which no    *)
(* shift of an 8-bit value by at most 8 bits overflows: a << n is          *)
(* a * 2 ^ n and a >> n is a \div 2 ^ n; a result converted to uint8_t is  *)
(* taken % 256.                                                            *)
(***************************************************************************)
kMaxPreemptionBits == 8

RECURSIVE BitAnd(_, _)
BitAnd(a, b) ==
    IF a = 0 \/ b = 0 THEN 0
    ELSE (a % 2) * (b % 2) + 2 * BitAnd(a \div 2, b \div 2)

BitOr(a, b) == a + b - BitAnd(a, b)

\* IsrPriority::FromPreemptSub<PreemptBits>(p, s): the m_value of the result
FromPreemptSub(PreemptBits, p, s) ==
    BitOr(BitAnd(p, 2 ^ PreemptBits - 1) * 2 ^ (kMaxPreemptionBits - PreemptBits),
          BitAnd(s, 2 ^ (kMaxPreemptionBits - PreemptBits) - 1)) % 256

\* IsrPriority::value()
value(m_value) == m_value

\* IsrPriority::preempt<PreemptBits>()
preempt(PreemptBits, m_value) ==
    (m_value \div 2 ^ (kMaxPreemptionBits - PreemptBits)) % 256

\* IsrPriority::sub<PreemptBits>(): the subtraction binds tighter than the
\* shift, so that the mask is 1 << ((kMaxPreemptionBits - PreemptBits) - 1)
sub(PreemptBits, m_value) ==
    BitAnd(m_value, 2 ^ ((kMaxPreemptionBits - PreemptBits) - 1)) % 256

\* The arguments the application gives: every number of preemption bits
\* that leaves a sub-priority bit, and every preemption priority and
\* sub-priority that fit.
InitPriority ==
    /\ InitKernel(TaskPrio, MutexPrio)
    /\ \E b \in 1 .. kMaxPreemptionBits - 1 :
         \E p \in 0 .. 2 ^ b - 1, s \in 0 .. 2 ^ (kMaxPreemptionBits - b) - 1 :
           isrPriority = [NoIsrPriority EXCEPT !.PreemptBits = b,
                                               !.preempt = p, !.sub = s]

KernelIdle ==
    UNCHANGED <<s_isStarted, s_ticks, s_allTasks, s_timeouts, s_ready, s_idling,
                s_mayNeedSwitch, s_previousTask, s_currentTask, s_nextTask,
                s_criticalSection, tcb, waitingNode, timeoutNode, handleNode,
                m_waitingList, mutex, basepri, primask, pendSv, frame_r0,
                running, isr, pc, call, held, wokenBy, halted>>

\* The application builds the priority ...
Construct ==
    /\ isrPriority.PreemptBits # None /\ isrPriority.m_value = None
    /\ isrPriority' = [isrPriority EXCEPT !.m_value =
           FromPreemptSub(isrPriority.PreemptBits, isrPriority.preempt, isrPriority.sub)]
    /\ KernelIdle

\* ... and calls value(), preempt<PreemptBits>() and sub<PreemptBits>() on it
ReadValue ==
    /\ isrPriority.m_value # None /\ isrPriority.value = None
    /\ isrPriority' = [isrPriority EXCEPT !.value = value(isrPriority.m_value)]
    /\ KernelIdle

ReadPreempt ==
    /\ isrPriority.m_value # None /\ isrPriority.gotPreempt = None
    /\ isrPriority' = [isrPriority EXCEPT !.gotPreempt =
           preempt(isrPriority.PreemptBits, isrPriority.m_value)]
    /\ KernelIdle

ReadSub ==
    /\ isrPriority.m_value # None /\ isrPriority.gotSub = None
    /\ isrPriority' = [isrPriority EXCEPT !.gotSub =
           sub(isrPriority.PreemptBits, isrPriority.m_value)]
    /\ KernelIdle

NextPriority ==
    \/ Construct
    \/ ReadValue
    \/ ReadPreempt
    \/ ReadSub

SpecPriority == InitPriority /\ [][NextPriority]_vars

(***************************************************************************)
(* The properties.                                                         *)
(***************************************************************************)
\* The tasks on the ready queue, on a condition variable's waiting list,
\* and on the timeout queue.
ReadyTasks == Range(Elems(s_ready, waitingNode))
WaitingTasks(c) == Range(Elems(m_waitingList[c], waitingNode))
TimeoutTasks == Range(Elems(s_timeouts, timeoutNode))

\* u is more urgent than t (a lower value is a higher priority).
Higher(u, t) == tcb[u].m_priority < tcb[t].m_priority

\* C1: while a task executes in thread mode (it is the current task, no
\* switch is pending and no critical section is active), no task on the
\* ready queue has a strictly higher priority.
C1_NoHigherReady ==
    \A t \in Tasks :
        (ThreadRuns(t) /\ s_currentTask = t /\ ~pendSv /\ ~s_criticalSection)
        => \A u \in ReadyTasks : ~Higher(u, t)

\* Task u is blocked: started, and neither current, next nor ready.
Blocked(u) ==
    /\ tcb[u].m_active
    /\ u # s_currentTask /\ u # s_nextTask /\ u \notin ReadyTasks

\* The step is one of SysTick_Handler; the step is the part of a notify
\* that calls Scheduler::wakeUp.
TickStep == s_ticks' # s_ticks
WakeUpStep ==
    \/ \E t \in Tasks : pc[t] \in {"notify_one", "notify_all"} /\ call'[t] # call[t]
    \/ isr.pc = "notify" /\ isr' # isr

\* C2: when a step of the tick handler or of wakeUp makes ready a blocked
\* task u of a higher priority than the current task, and no critical
\* section is active after it, a switch is pending to a next task that is
\* u or a task of at least u's priority, and the pending switch is taken
\* before any task executes.  The pending switch then dispatches the next
\* task, and until it does no task executes.
C2_Preemption ==
    [][/\ \A u \in Tasks :
            ( /\ TickStep \/ WakeUpStep
              /\ Blocked(u)
              /\ u \in ReadyTasks' \/ u = s_nextTask'
              /\ s_currentTask \in Tasks /\ Higher(u, s_currentTask)
              /\ ~s_criticalSection' /\ halted' = NoErr )
            => ( /\ pendSv' /\ PendSvTaken'
                 /\ s_nextTask' \in Tasks
                 /\ ~(tcb'[u].m_priority < tcb'[s_nextTask'].m_priority) )
       /\ (PendSvTaken /\ ThreadMode /\ s_nextTask \in Tasks /\ halted' = NoErr)
            => \/ ~pendSv' /\ running' = s_nextTask /\ s_currentTask' = s_nextTask
               \/ pendSv' /\ PendSvTaken' /\ running' = running /\ s_ticks' = s_ticks + 1
      ]_vars

\* C2 witness: a task was preempted: it is on the ready queue while it is
\* still the context of the core, and the switch to a task of a higher
\* priority, made ready by a tick, is pending.
C2_Witness ==
    /\ pendSv /\ PendSvTaken /\ s_ticks > 0
    /\ running \in Tasks /\ running \in ReadyTasks
    /\ s_nextTask \in Tasks /\ Higher(s_nextTask, running)
    /\ tcb[running].m_lastStarted < s_ticks

\* The started tasks, and the task that follows t in their cyclic order
\* (the tasks are started in the order of their numbers).
Started == {t \in Tasks : tcb[t].m_active}
Succ(t) == IF t + 1 \in Started THEN t + 1 ELSE 1

\* The step is the pending switch that dispatches a task.
DispatchStep == pendSv /\ ~pendSv' /\ running' \in Tasks

\* C3: tasks of one priority that only yield are dispatched in cyclic
\* order whatever the ticks at which they yield: a yield of the current
\* task while a peer is ready makes next the ready peer that is first in
\* the queue, whose last_started is the oldest, and never the yielding
\* task; a yield with no peer ready keeps the task; the first task
\* dispatched is task 1 and each dispatch is of the successor of the task
\* dispatched before.
C3_RoundRobin ==
    [][/\ (s_currentTask \in Tasks /\ ThreadRuns(s_currentTask)
           /\ s_ticks' = s_ticks /\ halted' = NoErr)
            => IF ReadyTasks = {}
               THEN ~pendSv' /\ s_currentTask' = s_currentTask
               ELSE /\ pendSv' /\ s_currentTask' = Null
                    /\ s_nextTask' = s_ready.m_first
                    /\ s_nextTask' # s_currentTask
                    /\ \A u \in ReadyTasks :
                          tcb[s_nextTask'].m_lastStarted <= tcb[u].m_lastStarted
                    /\ s_currentTask \in ReadyTasks'
       /\ (DispatchStep /\ halted' = NoErr)
            => /\ running' = s_nextTask /\ s_currentTask' = running'
               /\ running' = IF s_previousTask = Null THEN 1 ELSE Succ(s_previousTask)
      ]_vars

\* C3 witness: every task is started and has been dispatched, at ticks that
\* are not all the same, and the task dispatched first runs again.
C3_Witness ==
    /\ Started = Tasks
    /\ ThreadRuns(1) /\ s_currentTask = 1
    /\ \A u \in Tasks \ {1} : /\ 0 < tcb[u].m_lastStarted
                              /\ tcb[u].m_lastStarted < tcb[1].m_lastStarted
    /\ \E u, v \in Tasks \ {1} : tcb[u].m_lastStarted < tcb[v].m_lastStarted

\* The asserts of PriorityMutex and of CriticalSection.
MutexAsserts ==
    {"CriticalSection::operator=: !m_valid", "CriticalSection::disable: m_valid",
     "lock: cannot lower basepri", "lock: ipsr == 0", "lock: !isPrimask",
     "lock: interrupt priority above the mutex",
     "unlock: isPrimask", "unlock: basepri was the mutex's", "unlock: ipsr == 0",
     "reLockFromPendSv: priority != 0",
     "releaseFromServiceCall: m_locked", "releaseFromServiceCall: isPrimask",
     "releaseFromServiceCall: basepri was the mutex's",
     "criticalSectionEnd: s_criticalSection", "triggerSoftSwitch: previous == 0",
     "Wait: s_criticalSection == true"}

\* The value BASEPRI has while mutex m is locked.
MaskOf(m) == IF mutex[m].m_priority = None THEN 0 ELSE maskedValue(mutex[m].m_priority)

\* The step is the pending switch that dispatches task t.
DispatchOf(t) == pendSv /\ s_nextTask = t /\ s_currentTask' = t

\* C4: a task that waited with mutex m, which is its pending mutex from the
\* service call on, does not execute before the pending switch dispatches
\* it, and the switch that dispatches it (after a notify or its timeout)
\* fails no assert and leaves the critical section active, m locked with a
\* valid critical-section handle, BASEPRI at m's priority and the task's
\* pending mutex cleared.
C4_ReLockOnResume ==
    [][\A t \in Tasks, m \in Mutexes :
           tcb[t].m_mutex = m
           => /\ ~ThreadRuns(t)
              /\ halted' \notin MutexAsserts \cup {"pendSvHandler: isStarted"}
              /\ (DispatchOf(t) /\ halted' = NoErr)
                   => /\ running' = t
                      /\ s_criticalSection'
                      /\ mutex'[m].m_locked /\ mutex'[m].m_criticalSection
                      /\ basepri' = MaskOf(m)
                      /\ tcb'[t].m_mutex = Null
      ]_vars

\* C4 witness: a task that waited with a mutex and a timeout was woken by
\* a notify, was dispatched and executes with the mutex locked again.
C4_Witness ==
    \E t \in Tasks, m \in UserMutexes :
        /\ ThreadRuns(t) /\ s_currentTask = t
        /\ pc[t] = "wait_for" /\ wokenBy[t] = "notify"
        /\ held[t] = <<m>> /\ tcb[t].m_mutex = Null
        /\ s_criticalSection /\ mutex[m].m_criticalSection
        /\ basepri = MaskOf(m)

\* The step is task u's lock of mutex m; the step is its unlock of m.
LockStep(u, m) == held'[u] = Append(held[u], m)
UnlockStep(u, m) == held[u] = Append(held'[u], m)

\* C5: the Wait service call of a task that holds mutex m (and no other)
\* leaves the critical section inactive, BASEPRI at its value before the
\* lock, m's handle invalid and m as the task's pending mutex, which it
\* stays until the task is dispatched; while it is, a lock of m by another
\* task that holds no mutex succeeds at once (the task goes on with m, the
\* critical section and BASEPRI at m's priority), and its unlock releases
\* them; no assert of the mutex fails.
C5_ReleasedWhileWaiting ==
    [][\A t \in Tasks, m \in UserMutexes :
         /\ (tcb[t].m_mutex = Null /\ tcb'[t].m_mutex = m)
              => /\ ~s_criticalSection' /\ ~mutex'[m].m_criticalSection
                 /\ basepri' = mutex[m].m_previousLock
                 /\ \E c \in CVs : t \in WaitingTasks(c)'
                 /\ ~ThreadRuns(t)'
         /\ (tcb[t].m_mutex = m /\ tcb'[t].m_mutex # m) => DispatchOf(t)
         /\ tcb[t].m_mutex = m
              => /\ halted' \notin MutexAsserts
                 /\ \A u \in Tasks \ {t} :
                      /\ (LockStep(u, m) /\ held[u] = <<>>)
                           => /\ ThreadRuns(u)' /\ s_criticalSection'
                              /\ mutex'[m].m_locked /\ mutex'[m].m_criticalSection
                              /\ basepri' = MaskOf(m)
                              /\ tcb'[t].m_mutex = m
                      /\ (UnlockStep(u, m) /\ held'[u] = <<>>)
                           => /\ ~s_criticalSection' /\ ~mutex'[m].m_criticalSection
                              /\ basepri' = 0
      ]_vars

\* C5 witness: while a task that waited with mutex m is blocked on the
\* condition variable, another task holds m and executes.
C5_Witness ==
    \E t, u \in Tasks, m \in UserMutexes :
        /\ t # u /\ tcb[t].m_mutex = m
        /\ \E c \in CVs : t \in WaitingTasks(c)
        /\ ThreadRuns(u) /\ held[u] = <<m>>
        /\ mutex[m].m_criticalSection /\ basepri = MaskOf(m)

\* Task t is inside a lock(m) .. unlock(m) region.
Holds(t, m) == m \in Range(held[t]) /\ tcb[t].m_mutex # m

\* C6: while a task is inside a lock(m) .. unlock(m) region, the critical
\* section is active and the task is the context of the core (no other
\* task is dispatched), no other task and no interrupt service routine is
\* inside the region, and, when m has an interrupt priority, BASEPRI (or
\* PRIMASK) masks every interrupt of m's priority or below, which are those
\* allowed to lock m.
C6_MutualExclusion ==
    \A t \in Tasks, m \in UserMutexes :
        Holds(t, m)
        => /\ s_criticalSection /\ running = t
           /\ \A u \in Tasks \ {t} : ~Holds(u, m)
           /\ ~(isr.pc = "locked" /\ isr.mutex = m)
           /\ mutex[m].m_priority # None
                => \/ primask
                   \/ basepri # 0 /\ maskedValue(basepri) <= maskedValue(mutex[m].m_priority)

\* Task u called a wait, its service call is done, and neither a notify nor
\* its timeout has woken it since.
BlockedInWait(u) == pc[u] \in {"wait", "wait_for"} /\ wokenBy[u] = "none"
\* Task u is on the ready queue, or is the next or the current task.
IsReady(u) == u \in ReadyTasks \/ u = s_nextTask \/ u = s_currentTask

\* The step is the pop_front of a notify that takes u from the waiting
\* list of condition variable c; the step is the wakeUp of u by a notify on
\* the condition variable u waits on; the step is a tick at which u's
\* timeout expires; the step terminates u.
NotifyPopOf(u, c) ==
    \/ \E t \in Tasks : pc[t] \in {"run", "notify_all"} /\ call'[t] = [cv |-> c, task |-> u]
    \/ isr.pc = "idle" /\ isr'.pc = "notify" /\ isr'.cv = c /\ isr'.task = u
NotifyWakeOf(u) ==
    \/ \E t \in Tasks : /\ pc[t] \in {"notify_one", "notify_all"}
                         /\ call[t] = [cv |-> tcb[u].m_waiting, task |-> u]
                         /\ call'[t] # call[t]
    \/ isr.pc = "notify" /\ isr.cv = tcb[u].m_waiting /\ isr.task = u /\ isr'.pc = "idle"
TimeoutOf(u) ==
    TickStep /\ tcb[u].m_waitUntil # None /\ tcb[u].m_waitUntil <= s_ticks'
TerminationOf(u) == pc'[u] = "off"

\* C7: a task blocked in a wait becomes ready (is put on the ready queue or
\* made the next or the current task) only by the wakeUp of a notify on its
\* condition variable or by a tick at which its own timeout expires, and
\* leaves the waiting list only by the pop_front of such a notify, by that
\* tick or by its termination; a task in wait() has no timeout, so that
\* only a notify makes it ready.
C7_NoSpuriousWakeUp ==
    [][\A u \in Tasks :
         (BlockedInWait(u) /\ halted' = NoErr)
         => /\ (~IsReady(u) /\ IsReady(u)') => (NotifyWakeOf(u) \/ TimeoutOf(u))
            /\ \A c \in CVs :
                 (u \in WaitingTasks(c) /\ u \notin WaitingTasks(c)')
                 => (NotifyPopOf(u, c) \/ TimeoutOf(u) \/ TerminationOf(u))
            /\ pc[u] = "wait" => tcb[u].m_waitUntil = None
      ]_vars

\* Task u is blocked in wait_for, on the waiting list of its condition
\* variable, with a deadline, and nothing has woken it.
TimedWaiter(u) ==
    /\ pc[u] = "wait_for" /\ wokenBy[u] = "none"
    /\ tcb[u].m_waitUntil # None /\ tcb[u].m_waiting # Null
    /\ u \in WaitingTasks(tcb[u].m_waiting)

\* C8: a task in wait_for(t) since tick t0 that no notify wakes stays
\* blocked at every tick before t0 + t (its deadline, wait_until); the
\* tick at which ticks reaches the deadline (or the first tick after the
\* call, which is within t + 1) makes it ready, takes it from the waiting
\* list and clears its deadline; and once the tick has woken it, it
\* resumes with the status timeout in r0.
C8_TimeoutWake ==
    [][\A u \in Tasks :
         /\ (TimedWaiter(u) /\ TickStep /\ s_ticks' < tcb[u].m_waitUntil)
              => /\ ~IsReady(u)' /\ u \in WaitingTasks(tcb[u].m_waiting)'
         /\ (TimedWaiter(u) /\ TickStep /\ s_ticks' >= tcb[u].m_waitUntil)
              => /\ halted' = NoErr
                 /\ IsReady(u)' /\ u \notin WaitingTasks(tcb[u].m_waiting)'
                 /\ tcb'[u].m_waitUntil = None /\ wokenBy'[u] = "timeout"
         /\ (pc[u] = "wait_for" /\ wokenBy[u] = "timeout" /\ ThreadRuns(u))
              => frame_r0[u] = timeout
      ]_vars

\* C9: the wakeUp of a notify that comes before the deadline of a task in
\* wait_for makes the task ready, clears its deadline and takes it from the
\* timeout queue; the task then resumes with the status no_timeout in r0;
\* and a later tick finds the task off the timeout queue, leaves its
\* status as it is and leaves it ready.
C9_NotifyBeforeDeadline ==
    [][\A u \in Tasks :
         /\ (pc[u] = "wait_for" /\ NotifyWakeOf(u) /\ tcb[u].m_waitUntil # None)
              => /\ halted' = NoErr
                 /\ IsReady(u)' /\ wokenBy'[u] = "notify"
                 /\ tcb'[u].m_waitUntil = None /\ u \notin TimeoutTasks'
         /\ (pc[u] = "wait_for" /\ wokenBy[u] = "notify")
              => /\ ThreadRuns(u) => frame_r0[u] = no_timeout
                 /\ tcb[u].m_waitUntil = None /\ u \notin TimeoutTasks
                 /\ TickStep => /\ frame_r0'[u] = frame_r0[u]
                                /\ wokenBy'[u] = "notify"
                                /\ IsReady(u) => IsReady(u)'
      ]_vars

\* C10: when a task resumes in wait_for, the r0 it reads is no_timeout
\* if a notify woke it and timeout if the tick handler did, and nothing
\* else; the assert on the value read never fails.
C10_ReturnStatus ==
    /\ halted # "wait_for: result == 0 || result == 1"
    /\ \A u \in Tasks :
         (pc[u] = "wait_for" /\ ThreadRuns(u))
         => \/ wokenBy[u] = "notify" /\ frame_r0[u] = no_timeout
            \/ wokenBy[u] = "timeout" /\ frame_r0[u] = timeout

\* C11: in a step during which the critical section stays active, nothing
\* is switched: current_task and next_task keep their values, no PendSV is
\* requested, the task that executes stays the same, nothing is popped
\* from the ready queue, and a task that the step puts on it (a tick, a
\* notify from an interrupt) only sets may_need_switch.
C11_DeferredInSection ==
    [][(s_criticalSection /\ s_criticalSection' /\ halted' = NoErr)
          => /\ s_currentTask' = s_currentTask
             /\ s_nextTask' = s_nextTask
             /\ pendSv' = pendSv
             /\ running' = running
             /\ s_ready.m_size' >= s_ready.m_size
             /\ (s_ready.m_size' > s_ready.m_size => s_mayNeedSwitch')]_vars
\* A task executes in its critical section while a more urgent task, made
\* ready meanwhile, is on the ready queue and the switch is deferred.
C11_Witness ==
    /\ halted = NoErr
    /\ s_criticalSection /\ s_mayNeedSwitch /\ ~pendSv
    /\ s_currentTask \in Tasks /\ ThreadRuns(s_currentTask)
    /\ \E u \in ReadyTasks : Higher(u, s_currentTask)

\* Task u is at the front of the ready queue's order.
MostUrgent(u) ==
    /\ u \in ReadyTasks
    /\ \A v \in ReadyTasks \ {u} : priorityIsLower(tcb, u, v)
\* The step ends the critical section with a switch deferred: the task
\* that executes releases the valid handle (it does not enter a wait, whose
\* service call disables the handle instead).
DeferredRelease ==
    /\ s_criticalSection /\ ~s_criticalSection' /\ s_mayNeedSwitch
    /\ halted' = NoErr
    /\ running \in Tasks /\ pc'[running] = "run"

\* C12: the step that releases the valid critical-section handle with
\* may_need_switch set clears may_need_switch, and if the most urgent ready
\* task is more urgent than the releasing one it becomes next_task with
\* PendSV pending and taken before the releasing task's next instruction;
\* a deferred switch is eventually performed, and the more urgent task
\* eventually executes.
C12_DeferredSwitch ==
    /\ [][DeferredRelease
            => /\ ~s_mayNeedSwitch'
               /\ \A u \in Tasks :
                     (MostUrgent(u) /\ Higher(u, s_currentTask))
                     => s_nextTask' = u /\ PendSvTaken']_vars
    /\ (s_criticalSection /\ s_mayNeedSwitch) ~> ~s_mayNeedSwitch
    /\ \A u \in Tasks :
          (s_criticalSection /\ s_mayNeedSwitch /\ MostUrgent(u)
              /\ Higher(u, s_currentTask))
          ~> (s_currentTask = u /\ ThreadRuns(u))
\* A critical section has just ended with a switch deferred: the more
\* urgent task is next and PendSV is pending.
C12_Witness ==
    /\ halted = NoErr
    /\ ~s_criticalSection /\ ~s_mayNeedSwitch /\ pendSv
    /\ s_nextTask \in Tasks /\ running \in Tasks
    /\ Higher(s_nextTask, running)
    /\ pc[running] = "run" /\ held[running] = <<>>
    /\ \E m \in UserMutexes : mutex[m].m_locked

\* Task t is in sleep_for: it has called it at now = call[t].since with the
\* duration call[t].for, and has not been dispatched since.
Asleep(t) == pc[t] = "sleep"
\* The step is the return of task t's entry function.
ExitOf(t) == pc[t] = "run" /\ pc'[t] = "off" /\ running = t

C14_SleepAtLeast ==
    [][\A t \in Tasks :
          /\ \A n \in SleepTimes :
                SleepFor(t, n)
                => /\ halted' = NoErr
                   /\ tcb'[t].m_waitUntil = s_ticks + n + 1
                   /\ t \in TimeoutTasks'
                   /\ s_currentTask' = Null /\ pendSv'
          /\ (Asleep(t)' /\ halted' = NoErr
                /\ s_ticks' < call'[t].since + call'[t].for)
             => Blocked(t)'
          /\ (Asleep(t) /\ Blocked(t) /\ TickStep /\ halted' = NoErr
                /\ s_ticks' = call[t].since + call[t].for + 1)
             => IsReady(t)']_vars

\* The tasks on the all-tasks list; the number of times t is in a sequence.
AllTasks == Range(Elems(s_allTasks, handleNode))
Count(seq, t) == Cardinality({i \in DOMAIN seq : seq[i] = t})

\* C15: a task that is not active (terminated and not re-started, or never
\* started) is on none of the ready queue, the timeout queue, the waiting
\* lists and the all-tasks list, is neither current_task nor next_task,
\* and does not execute.
C15_TerminatedIsGone ==
    \A t \in Tasks :
        (halted = NoErr /\ ~tcb[t].m_active)
        => /\ t \notin ReadyTasks /\ t \notin TimeoutTasks /\ t \notin AllTasks
           /\ \A c \in CVs : t \notin WaitingTasks(c)
           /\ s_currentTask # t /\ s_nextTask # t
           /\ ~ThreadRuns(t)

\* C16: the Terminate service call for a task whose active flag is false
\* changes no queue, no task pointer and no flag of the scheduler, requests
\* no switch and fails no assertion.
C16_TerminateInactive ==
    [][\A t \in Tasks :
          (pc[t] = "stop" /\ pc'[t] = "run" /\ ~tcb[call[t].task].m_active)
          => UNCHANGED <<s_isStarted, s_ticks, s_allTasks, s_timeouts, s_ready,
                         s_idling, s_mayNeedSwitch, s_previousTask, s_currentTask,
                         s_nextTask, s_criticalSection, tcb, waitingNode,
                         timeoutNode, handleNode, m_waitingList, pendSv,
                         halted>>]_vars
\* Task t executes the Terminate service call of a stop() for a task that
\* another task has terminated after t's check of isStarted(), while other
\* tasks are on the ready queue.
C16_Witness ==
    \E t \in Tasks :
        /\ ThreadRuns(t) /\ pc[t] = "stop"
        /\ call[t].task # t /\ ~tcb[call[t].task].m_active
        /\ ReadyTasks # {}

\* The step is a TaskControlBlock::start of the inactive task t.
StartOf(t) == pc[t] = "off" /\ pc'[t] = "run"

\* C17: start of an inactive task fails no assertion, returns true and
\* leaves the task active, once on the all-tasks list and once on the
\* ready queue (or taken from it as next_task); start of an active task
\* returns false and changes nothing.
C17_StartOnce ==
    /\ [][\A t \in Tasks :
            StartOf(t)
            => /\ halted' = NoErr
               /\ tcb'[t].m_active
               /\ Count(Elems(s_allTasks, handleNode)', t) = 1
               /\ Count(Elems(s_ready, waitingNode)', t)
                     + (IF s_nextTask' = t THEN 1 ELSE 0) = 1]_vars
    /\ [](\A t \in Tasks :
            halted = NoErr
            => IF tcb[t].m_active
               THEN taskStart(K, t) = [K EXCEPT !.ret = FALSE]
               ELSE taskStart(K, t).err # NoErr \/ taskStart(K, t).ret)

\* C18: the first Scheduler::start returns true; a second one returns
\* false and leaves the scheduler as it was (no assertion fails, nothing
\* changes).
C18_DoubleStartReported ==
    /\ [](~s_isStarted /\ halted = NoErr
            => schedulerStart(K).err = NoErr /\ schedulerStart(K).ret)
    /\ [](s_isStarted /\ halted = NoErr
            => schedulerStart(K) = [K EXCEPT !.ret = FALSE])
    /\ [][\A t \in Tasks : StartAgain(t) => UNCHANGED vars]_vars

\* The ready queue as a sequence, front first, and its being in priority
\* order: no task is behind a less urgent one.
ReadySeq == Elems(s_ready, waitingNode)
ReadyInOrder(seq) == \A i, j \in 1 .. Len(seq) : i < j => ~Higher(seq[j], seq[i])

\* The step is the wakeUp of task u by the notify_all that task t executes;
\* the step is the return of the notify_all of task t on condition
\* variable c.
WakeAllOf(t, u) == pc[t] = "notify_all" /\ call[t].task = u /\ call'[t] # call[t]
ReturnOfAll(t, c) == pc[t] = "notify_all" /\ call[t].cv = c /\ pc'[t] = "run"

\* The task that runs once the pending switch, if there is one, is taken.
RunsNext == IF s_nextTask # Null THEN s_nextTask ELSE s_currentTask

\* C19: notify_all wakes the waiters most urgent first, and each wakeUp puts
\* the task on the ready queue, which stays in priority order, with
\* m_waiting cleared and no timeout left (the last one woken may already be
\* the next task when notify_all returns); while a task is in notify_all it
\* remains the running task and no switch is dispatched; when notify_all
\* returns the waiting list is empty and the task that runs next is one that
\* no ready task is more urgent than, with the switch pending if it is not
\* the caller; and every wakeUp of a notify_all is carried out (no assert of
\* the kernel fails in it and no list walk in it is endless).
C19_NotifyAllDrains ==
    /\ [][\A t, u \in Tasks : (WakeAllOf(t, u) /\ halted' = NoErr)
            => /\ \A v \in WaitingTasks(call[t].cv) : ~Higher(v, u)
               /\ u \in ReadyTasks' \/ (pc'[t] = "run" /\ s_nextTask' = u)
               /\ ReadyInOrder(ReadySeq')
               /\ tcb'[u].m_waiting = Null
               /\ tcb'[u].m_waitUntil = None
               /\ u \notin TimeoutTasks']_vars
    /\ [][\A t \in Tasks : (pc[t] = "notify_all" /\ halted' = NoErr)
            => running' = t /\ ~DispatchStep]_vars
    /\ [][\A t \in Tasks, c \in CVs : (ReturnOfAll(t, c) /\ halted' = NoErr)
            => /\ WaitingTasks(c)' = {}
               /\ m_waitingList'[c].m_size = 0
               /\ RunsNext' \in Tasks
               /\ \A v \in ReadyTasks' : ~Higher(v, RunsNext')
               /\ RunsNext' # t => pendSv']_vars
    /\ [][\A t \in Tasks : (pc[t] = "notify_all" /\ ~TickStep) => halted' = halted]_vars

\* Task u is the first of the set W of tasks in priority order: no task of W
\* is more urgent, and none of the same priority was started before u.
FirstOf(u, W) ==
    \A v \in W \ {u} :
        /\ ~Higher(v, u)
        /\ tcb[v].m_priority = tcb[u].m_priority
             => tcb[u].m_lastStarted <= tcb[v].m_lastStarted

\* C20: a notify_one on a condition variable with tasks waiting takes from
\* the waiting list the waiter that is first in priority order (the most
\* urgent, and among those of one priority the one started first), with
\* the priorities as update_priority has left them, a task that is not
\* ready, and leaves every other waiter on the list; its wakeUp makes that
\* task ready, and no other task becomes ready or leaves the waiting list
\* in it.
C20_NotifyOneFirst ==
    /\ [][\A t \in Tasks, c \in CVs :
            (Notify(t, c, FALSE) /\ WaitingTasks(c) # {})
            => /\ halted' = NoErr
               /\ pc'[t] = "notify_one" /\ call'[t].cv = c
               /\ call'[t].task \in WaitingTasks(c)
               /\ FirstOf(call'[t].task, WaitingTasks(c))
               /\ ~IsReady(call'[t].task)
               /\ WaitingTasks(c)' = WaitingTasks(c) \ {call'[t].task}
               /\ m_waitingList'[c].m_size = m_waitingList[c].m_size - 1]_vars
    /\ [][\A t, u \in Tasks, c \in CVs :
            (pc[t] = "notify_one" /\ call[t] = [cv |-> c, task |-> u] /\ NotifyWake(t))
            => /\ halted' = NoErr
               /\ pc'[t] = "run"
               /\ ~IsReady(u) /\ IsReady(u)'
               /\ \A v \in Tasks \ {u} : IsReady(v)' <=> IsReady(v)
               /\ WaitingTasks(c)' = WaitingTasks(c)]_vars

\* The timeout queue as a sequence, front first, and the place of a task in
\* a sequence (0 when it is not in it).
TimeoutSeq == Elems(s_timeouts, timeoutNode)
PlaceIn(seq, u) == IF \E i \in 1 .. Len(seq) : seq[i] = u
                   THEN CHOOSE i \in 1 .. Len(seq) : seq[i] = u ELSE 0

IsrPriorities == 1 .. 255

\* C22: a lock of a mutex, by a task or by an interrupt service routine,
\* leaves masked every interrupt priority that was masked before it.
C22_LockKeepsMask ==
    [][((\E t \in Tasks, m \in Mutexes : Lock(t, m)) \/ (\E m \in Mutexes : IsrLock(m)))
         => \A p \in IsrPriorities : ~Unmasked(p) => ~Unmasked(p)']_vars

\* Task t is blocked in a wait_until whose time point had passed at the call.
PastWaiter(t) ==
    /\ pc[t] = "wait_for" /\ wokenBy[t] = "none"
    /\ call[t].until < call[t].since

\* C23: a task blocked in a wait_until whose time point had passed at the
\* call has a deadline and is on the timeout queue, and the next tick takes
\* it off the waiting list and makes it ready with the status timeout.
C23_PastWaitTimesOut ==
    /\ [](\A t \in Tasks : PastWaiter(t) => tcb[t].m_waitUntil # None /\ t \in TimeoutTasks)
    /\ [][\A t \in Tasks : (PastWaiter(t) /\ Tick)
            => wokenBy'[t] = "timeout" /\ IsReady(t)']_vars

\* C24: in every state the Sleep service call made while the critical
\* section is active, or from outside thread mode, or with no current task,
\* fails an assert and has changed nothing of the kernel's state when it
\* does; a task that sleeps with a mutex locked, and an interrupt service
\* routine that sleeps, stop the system on the assert; and no task that
\* holds a mutex is on the timeout queue or has a deadline.
C24_SleepInSectionAsserts ==
    /\ [](\A n \in 0 .. MaxTimeout, isThread \in BOOLEAN :
             (halted = NoErr /\ (s_criticalSection \/ ~isThread \/ s_currentTask = Null))
             => /\ serviceCallSleep(K, n, isThread).err
                     \in {"Sleep: isThread", "Sleep: !s_criticalSection",
                          "Sleep: s_currentTask != nullptr"}
                /\ serviceCallSleep(K, n, isThread)
                     = [K EXCEPT !.err = serviceCallSleep(K, n, isThread).err])
    /\ [][\A t \in Tasks, n \in 0 .. MaxTimeout :
            SleepLocked(t, n) => halted' = "Sleep: !s_criticalSection"]_vars
    /\ [][\A n \in 0 .. MaxTimeout : IsrSleep(n) => halted' = "Sleep: isThread"]_vars
    /\ [](\A t \in Tasks : held[t] # <<>> => t \notin TimeoutTasks /\ tcb[t].m_waitUntil = None)

\* C24 witness: the system has stopped on the assert of a sleep_for that the
\* running task made with a mutex locked.
C24_Witness ==
    /\ halted = "Sleep: !s_criticalSection"
    /\ s_criticalSection /\ running \in Tasks /\ held[running] # <<>>
    /\ s_currentTask = running /\ TimeoutTasks # {}

\* C25: until the scheduler is started the tasks started are on the
\* all-tasks list and on the ready queue, which is in priority order, and
\* nothing else: no switch is pending, there is no current, next or
\* previous task, and the code that will start the scheduler is what
\* executes; starting a task then asserts nothing and asks for no switch.
\* Scheduler::start asks for the switch and makes next the most urgent of the
\* tasks started, none if no task was started; nothing but the tick handler
\* executes between it and the switch, which dispatches that task, or the
\* idle task.
C25_QueuedUntilStart ==
    /\ [](~s_isStarted
            => /\ ~pendSv /\ running = Boot /\ ~s_idling
               /\ s_currentTask = Null /\ s_nextTask = Null /\ s_previousTask = Null
               /\ ReadyTasks = Started /\ AllTasks = Started
               /\ Len(ReadySeq) = Cardinality(Started)
               /\ ReadyInOrder(ReadySeq)
               /\ TimeoutTasks = {})
    /\ [][\A t \in Tasks : TaskStartAny(t)
            => halted' = NoErr /\ ~s_isStarted' /\ ~pendSv' /\ t \in ReadyTasks']_vars
    /\ [][Start
            => /\ halted' = NoErr /\ s_isStarted' /\ pendSv' /\ running' = Boot
               /\ IF Started = {} THEN s_nextTask' = Null
                  ELSE /\ s_nextTask' \in Started
                       /\ \A u \in Started : ~Higher(u, s_nextTask')]_vars
    /\ []((s_isStarted /\ running = Boot /\ halted = NoErr) => PendSvTaken)
    /\ [][running = Boot /\ s_isStarted
            => \/ running' = Boot /\ s_nextTask' = s_nextTask /\ pendSv'
               \/ /\ halted' = NoErr /\ ~pendSv'
                  /\ running' = (IF s_nextTask = Null THEN Idle ELSE s_nextTask)
                  /\ s_nextTask = Null => s_idling']_vars

\* C25 witness: tasks 3 and 2 were started, in that order, then task 1, the
\* most urgent, then the scheduler, and task 1 is the first dispatched.
C25_Witness ==
    /\ ReadySeq = <<3, 2>> /\ running = 1 /\ s_currentTask = 1
    /\ s_previousTask = 1 /\ tcb[1].m_lastStarted = 0 /\ s_ticks = 0
    /\ \A t \in Tasks : pc[t] = "run"

\* C26: in every state a task's m_waiting is a condition variable exactly
\* when the task is on that condition variable's waiting list.
C26_WaitingIffListed ==
    \A t \in Tasks, c \in CVs : tcb[t].m_waiting = c <=> t \in WaitingTasks(c)

\* The waiting list of condition variable c as a sequence, front first.
WaitingSeq(c) == Elems(m_waitingList[c], waitingNode)

\* The number of places task t has on the lists in sequence ss.
RECURSIVE PlacesIn(_, _)
PlacesIn(ss, t) == IF ss = <<>> THEN 0 ELSE Count(Head(ss), t) + PlacesIn(Tail(ss), t)

\* C27: in every state a task has at most one place on the lists that link
\* it by its waiting node (the ready queue and the waiting lists), at most
\* one on the timeout queue and at most one on the all-tasks list.
C27_OneListPerNode ==
    \A t \in Tasks :
        /\ PlacesIn(<<ReadySeq>> \o [c \in CVs |-> WaitingSeq(c)], t) <= 1
        /\ Count(TimeoutSeq, t) <= 1
        /\ Count(Elems(s_allTasks, handleNode), t) <= 1

\* The base-priority mask keeps out the tick and every interrupt that may
\* call the kernel
KernelMasked == ~Unmasked(kServiceCallPriority)

\* C28: the kernel's lists, task pointers and flags change only with the
\* base-priority mask at the kernel priority or in a handler: a task is
\* popped from a waiting list, a task is added to the list of all tasks and
\* to the ready queue by a running task, and the critical section flag is
\* set by lock(), with the mask raised, so that no tick can come between.
C28_KernelMutationsMasked ==
    /\ [](\A t \in Tasks : pc[t] \in {"notify_one", "notify_all"} => KernelMasked)
    /\ [][\A u, t \in Tasks : TaskStartLate(u, t) => KernelMasked]_vars
    /\ [][\A t \in Tasks, m \in Mutexes :
            (Lock(t, m) /\ s_criticalSection' # s_criticalSection) => KernelMasked]_vars

\* C29: in every state a task has a wait_until deadline if and only if it
\* is in the timeout queue.
C29_DeadlineIffQueued ==
    \A t \in Tasks : tcb[t].m_waitUntil # None <=> t \in TimeoutTasks

\* C30: an active task that waits on no condition variable and has no
\* deadline is on the ready queue, or is the current or the next task.
C30_NoLostTask ==
    \A t \in Tasks :
        (tcb[t].m_active /\ tcb[t].m_waiting = Null /\ tcb[t].m_waitUntil = None)
            => (t \in ReadyTasks \/ s_currentTask = t \/ s_nextTask = t)

\* The key of task u does not come after the key of task v in the order
\* (priority ascending, last_started ascending).
KeyNotAfter(u, v) ==
    \/ tcb[u].m_priority < tcb[v].m_priority
    \/ tcb[u].m_priority = tcb[v].m_priority /\ tcb[u].m_lastStarted <= tcb[v].m_lastStarted

\* C31: in every state the ready queue is sorted by (priority ascending,
\* last_started ascending).
C31_ReadySorted ==
    \A i, j \in 1 .. Len(ReadySeq) : i < j => KeyNotAfter(ReadySeq[i], ReadySeq[j])

\* C32: a call of priority(p) on a task leaves the task on the queue it is
\* on (ready queue or current or next, a waiting list, the timeout queue)
\* and on no other, and afterwards no ready task is more urgent than the
\* task that runs next.
C32_PriorityKeepsQueue ==
    [][\A t, target \in Tasks, p \in Prios :
          SetPriority(t, target, p)
          => /\ halted' = NoErr
             /\ tcb'[target].m_priority = p
             /\ IsReady(target)' <=> IsReady(target)
             /\ \A c \in CVs : (target \in WaitingTasks(c))' <=> target \in WaitingTasks(c)
             /\ (target \in TimeoutTasks)' <=> target \in TimeoutTasks
             /\ (\A u \in ReadyTasks : ~Higher(u, RunsNext))']_vars

\* The current task would be the head of the ready queue once it and the
\* next task are re-inserted: it comes before every task queued.
CurrentStaysFirst ==
    /\ s_currentTask # Null
    /\ \A u \in ReadyTasks \cup ({s_nextTask} \ {Null}) : priorityIsLower(tcb, s_currentTask, u)
\* r is the outcome the claim gives for a doSwitch in the present state.
SwitchOutcome(r) ==
    /\ r.err = NoErr
    /\ r.ret = FALSE <=> CurrentStaysFirst
    /\ r.ret = FALSE => /\ r.pendSv = pendSv
                        /\ r.s_currentTask = s_currentTask
                        /\ r.s_nextTask = Null /\ s_nextTask = Null
                        /\ r.s_ready = s_ready /\ r.waitingNode = waitingNode
    /\ r.ret = TRUE => r.s_currentTask = Null /\ r.pendSv

\* C33: outside a critical section, a doSwitch that finds the current task
\* at the head of the ready queue after re-inserting it returns false,
\* requests no PendSV and leaves current task, next task (null) and ready
\* queue as they were; every other doSwitch returns true with no current
\* task and PendSV requested.  So does the Switch service call of yield().
C33_SwitchOrStay ==
    /\ []((halted = NoErr /\ s_isStarted /\ ~s_criticalSection) => SwitchOutcome(doSwitch(K)))
    /\ [][\A t \in Tasks :
            Yield(t) => /\ halted' = NoErr
                        /\ s_currentTask' = t <=> CurrentStaysFirst
                        /\ s_currentTask' = t => UNCHANGED <<s_ready, waitingNode, s_nextTask, pendSv>>
                        /\ s_currentTask' # t => s_currentTask' = Null /\ pendSv']_vars
C33_Witness ==
    /\ ThreadRuns(1) /\ s_currentTask = 1 /\ ReadySeq = <<2, 3>> /\ ~pendSv
    /\ tcb[1].m_lastStarted = 1 /\ tcb[2].m_lastStarted = 0
    /\ doSwitch(K).ret = FALSE

\* The mutexes whose critical-section handle is valid.
ValidHandles == {m \in Mutexes : mutex[m].m_criticalSection}

\* C34: at most one critical-section handle is valid, and the section is
\* active as long as one is; a lock() made while a section is active gets
\* an invalid handle, and the unlock() that releases an invalid handle
\* changes neither the section nor the valid handle; the lock() that opens
\* the section keeps it active after moving the handle into the mutex, and
\* the unlock() that releases the valid handle ends it.
C34_OneValidHandle ==
    /\ [](Cardinality(ValidHandles) <= 1 /\ (ValidHandles # {} => s_criticalSection))
    /\ [][\A t \in Tasks, m \in Mutexes :
            Lock(t, m) => /\ halted' = NoErr /\ s_criticalSection'
                          /\ s_criticalSection => ValidHandles' = ValidHandles
                          /\ ~s_criticalSection => ValidHandles' = {m}]_vars
    /\ [][\A t \in Tasks, m \in Mutexes :
            Unlock(t, m) => /\ halted' = NoErr
                            /\ m \notin ValidHandles
                               => /\ ValidHandles' = ValidHandles
                                  /\ s_criticalSection' = s_criticalSection
                                  /\ UNCHANGED <<s_ready, s_currentTask, s_nextTask, pendSv>>
                            /\ m \in ValidHandles
                               => ValidHandles' = {} /\ ~s_criticalSection']_vars
C34_Witness ==
    \E t \in Tasks :
        /\ ThreadRuns(t) /\ held[t] = <<2>> /\ mutex[3].m_locked
        /\ s_criticalSection /\ ValidHandles = {2}

\* The idle context executes: it is the running context, in thread mode,
\* and no taken PendSV is pending.
IdleRuns == halted = NoErr /\ running = Idle /\ ThreadMode /\ ~PendSvTaken

\* C35: the PendSV handler enters idle exactly when there is no next task,
\* and otherwise dispatches the next task and clears idling; while the idle
\* context executes there is no current task and the ready queue is empty;
\* a tick or an interrupt's notify that readies a task while idling requests
\* the PendSV that dispatches it, before the idle context executes again.
C35_IdleWhenNothingRuns ==
    /\ [](IdleRuns => s_idling /\ s_currentTask = Null /\ s_nextTask = Null /\ ReadyTasks = {})
    /\ []((halted = NoErr /\ s_idling /\ (ReadyTasks # {} \/ s_nextTask # Null))
             => pendSv /\ s_nextTask # Null /\ ~IdleRuns)
    /\ [][PendSV => /\ halted' = NoErr
                    /\ (s_idling' /\ running' = Idle) <=> s_nextTask = Null
                    /\ s_nextTask # Null
                       => /\ running' = s_nextTask /\ s_currentTask' = s_nextTask
                          /\ ~s_idling']_vars

\* C36: the task that executes is on no waiting list and not on the timeout
\* queue, and the assertion of doSwitch (there is a current task, or no
\* critical section is active) never fails.
C36_RunningNotQueued ==
    /\ \A t \in Tasks :
           ThreadRuns(t) => /\ t \notin TimeoutTasks
                            /\ \A c \in CVs : t \notin WaitingTasks(c)
    /\ halted # "doSwitch: current task or no critical section"

\* C37: unlock() on a mutex that is not locked changes neither the
\* base-priority mask, nor the interrupt-disable state, nor the critical
\* section, and fails no assertion, whether or not the caller holds another
\* mutex.
C37_UnlockOfUnlocked ==
    [][\A t \in Tasks, m \in Mutexes :
          UnlockAgain(t, m)
          => /\ halted' = NoErr
             /\ UNCHANGED <<basepri, primask, s_criticalSection>>]_vars

\* Task t, which could call wait or wait_for(n) on condition variable c now,
\* would block in it after a notify on c that finds no waiter, as it would
\* without the notify: w is the state the service call leaves after the
\* notify (n is -1 for wait).
BlocksIn(w, t, c) ==
    /\ Range(Elems(w.m_waitingList[c], w.waitingNode)) = {t}
    /\ w.tcb[t].m_waiting = c
    /\ w.s_currentTask # t /\ w.s_nextTask # t
    /\ t \notin Range(Elems(w.s_ready, w.waitingNode))
WaitAfterEmptyNotify(t, c, n) ==
    (ThreadRuns(t) /\ pc[t] = "run" /\ held[t] = <<>> /\ WaitingTasks(c) = {})
    => /\ notifyBegin(K, c, None).err = NoErr /\ notifyBegin(K, c, None).ret = Null
       /\ [svcWait([notifyBegin(K, c, None) EXCEPT !.frame_r0[t] = ArgWord], c, n, Null)
              EXCEPT !.mutex = mutex]
          = svcWait(Svc(t), c, n, Null)
       /\ svcWait(Svc(t), c, n, Null).err = NoErr
          => BlocksIn(svcWait(Svc(t), c, n, Null), t, c)

\* C38: a notify_one or notify_all on a condition variable with no waiter
\* changes no queue, no task pointer and no task, and requests no switch;
\* a wait or wait_for made after it leaves the state it would leave without
\* the notify, with the caller on the waiting list and blocked; and a task
\* blocked in a wait becomes ready again only by the wake-up of a notify or
\* by its timeout.
C38_EmptyNotifyForgotten ==
    /\ [][\A t \in Tasks, c \in CVs, all \in BOOLEAN :
            (Notify(t, c, all) /\ WaitingTasks(c) = {})
            => /\ halted' = NoErr /\ pc'[t] = "run"
               /\ UNCHANGED <<s_ready, s_timeouts, m_waitingList, waitingNode, timeoutNode,
                              s_currentTask, s_nextTask, s_previousTask, s_mayNeedSwitch,
                              s_criticalSection, s_idling, pendSv, basepri, tcb, running>>]_vars
    /\ [](\A t \in Tasks, c \in CVs, n \in -1 .. MaxTimeout : WaitAfterEmptyNotify(t, c, n))
    /\ [][\A t \in Tasks :
            (BlockedInWait(t) /\ ~IsReady(t) /\ IsReady(t)')
            => wokenBy'[t] \in {"notify", "timeout"}]_vars
C38_Witness ==
    /\ pc = [t \in Tasks |-> IF t = 1 THEN "wait" ELSE "off"]
    /\ mutex[1].m_locked
    /\ WaitingTasks(1) = {1} /\ ~IsReady(1) /\ running = Idle

\* C39: the current task and the next task are never both set, neither of
\* them is on the ready queue, and the assertion of doSwitch that they
\* differ never fails.
C39_CurrentNextApart ==
    /\ s_currentTask = Null \/ s_nextTask = Null
    /\ s_currentTask \notin ReadyTasks /\ s_nextTask \notin ReadyTasks
    /\ halted # "doSwitch: current != next"

\* C40: for every number of preemption bits from 1 to 7, every preemption
\* priority p and every sub-priority s that fit, the priority built by
\* FromPreemptSub has the raw value (p << (8 - PreemptBits)) | s, its
\* preempt() is p and its sub() is s.
C40_PreemptSubRoundTrip ==
    /\ isrPriority.value # None =>
         isrPriority.value = BitOr(isrPriority.preempt
                                     * 2 ^ (8 - isrPriority.PreemptBits),
                                   isrPriority.sub)
    /\ isrPriority.gotPreempt # None => isrPriority.gotPreempt = isrPriority.preempt
    /\ isrPriority.gotSub # None => isrPriority.gotSub = isrPriority.sub

=============================================================================
